---- MODULE Spec2Model ----
(***************************************************************************)
(* Model of the adaptive drill engine of MathTrainingLabs: the level       *)
(* table, the leveling state machine of updateStats, the level lookup of   *)
(* getLevelSpec, the question generator, the skill selection and the       *)
(* target time (src/unnamed/part_001), and the page that drives them      *)
(* (src/src/app/page.tsx): its mistake ledger, its stored state and        *)
(* settings, its sessions, the answer box and the auto-advance timer.      *)
(***************************************************************************)
EXTENDS Integers, Sequences, FiniteSets, TLC

VARIABLES
    stats,      \* the Stats value held by the caller: SkillKey -> SkillStats
    warm,       \* history variable: the level the replay of Init reached
    log,        \* history variable: the updateStats calls made since Init
    query,      \* the (skill, level) argument of a getLevelSpec call
    found,      \* the value getLevelSpec returned for query, or Pending
    target,     \* the value getTargetMs returned for query.level, or Pending
    request,    \* the arguments and random draws of a question request
    question,   \* the Question the request returned, or Pending
    answer,     \* the value a read of stats returned, or Pending
    mistakes,   \* the mistake ledger: a sequence of MistakeItem, head first
    clock,      \* the value Date.now() returns
    ledgerLog,  \* history variable: the ledger operations made since Init,
                \* each with its question, its Date.now() and the ledger before
    page,       \* the other state and ref cells of the Home component
    pageLast    \* history variable: the last handler of the page that ran,
                \* with its argument and the state it started from

vars == <<stats, warm, log, query, found, target, request, question, answer,
          mistakes, clock, ledgerLog, page, pageLast>>

lookupVars == <<query, found, target>>
genVars == <<request, question>>
ledgerVars == <<mistakes, clock, ledgerLog>>
pageVars == <<page, pageLast>>

(***************************************************************************)
(* Bounds of the model.                                                    *)
(***************************************************************************)
\* number of updateStats calls explored after the start state
MaxCalls == 3
\* how far below 1 and above MAX_LEVEL the looked-up levels range
LevelSlack == 3
\* Math.random() is drawn as roll / RollDen with roll in 0..RollDen-1, at
\* RollSteps + 1 evenly spread rolls from 0 to RollDen - 1
RollDen == 10000
RollSteps == 4
\* the longest mixed history the reads of a Stats value are sampled on
MaxSample == 2
\* the number of evenly spread rolls tried when looking for a roll that
\* makes pickSkill return a given skill
PickSteps == 25
\* number of addMistakeEntry / removeMistakeEntry calls explored
MaxLedgerOps == 2
\* number of ledger operations followed from an empty ledger
MaxFreshOps == 4
\* number of consecutive updateStats calls followed for one skill
MaxStreakCalls == 5
\* number of handlers followed on the settings screen, the mount included
MaxSettingsSteps == 5
\* number of updateStats calls replayed in either order
MaxReplayCalls == 2
\* number of handlers followed through sessions, the mount included
MaxPageSteps == 4

(***************************************************************************)
(* Types and the level table.                                              *)
(***************************************************************************)
SKILL_LIST == <<"add", "sub", "mul", "div">>

SkillKey == {"add", "sub", "mul", "div"}

MAX_HISTORY == 12

AddLevels ==
    << [maxA |-> 10, maxB |-> 10],     [maxA |-> 20, maxB |-> 20],
       [maxA |-> 30, maxB |-> 30],     [maxA |-> 50, maxB |-> 50],
       [maxA |-> 75, maxB |-> 75],     [maxA |-> 100, maxB |-> 100],
       [maxA |-> 150, maxB |-> 150],   [maxA |-> 250, maxB |-> 250],
       [maxA |-> 500, maxB |-> 500],   [maxA |-> 1000, maxB |-> 1000],
       [maxA |-> 1500, maxB |-> 1500], [maxA |-> 2000, maxB |-> 2000] >>

SubLevels ==
    << [maxA |-> 10, maxB |-> 10],     [maxA |-> 20, maxB |-> 20],
       [maxA |-> 30, maxB |-> 30],     [maxA |-> 50, maxB |-> 50],
       [maxA |-> 75, maxB |-> 75],     [maxA |-> 100, maxB |-> 100],
       [maxA |-> 150, maxB |-> 150],   [maxA |-> 250, maxB |-> 250],
       [maxA |-> 500, maxB |-> 500],   [maxA |-> 1000, maxB |-> 1000],
       [maxA |-> 1500, maxB |-> 1500], [maxA |-> 2000, maxB |-> 2000] >>

MulLevels ==
    << [maxA |-> 5, maxB |-> 5],   [maxA |-> 9, maxB |-> 9],
       [maxA |-> 12, maxB |-> 12], [maxA |-> 15, maxB |-> 15],
       [maxA |-> 20, maxB |-> 20], [maxA |-> 25, maxB |-> 25],
       [maxA |-> 30, maxB |-> 30], [maxA |-> 40, maxB |-> 40],
       [maxA |-> 50, maxB |-> 50], [maxA |-> 60, maxB |-> 60],
       [maxA |-> 75, maxB |-> 75], [maxA |-> 90, maxB |-> 90] >>

DivLevels ==
    << [minA |-> 1, maxA |-> 5,  minB |-> 0, maxB |-> 5],
       [minA |-> 1, maxA |-> 9,  minB |-> 0, maxB |-> 9],
       [minA |-> 1, maxA |-> 12, minB |-> 0, maxB |-> 12],
       [minA |-> 2, maxA |-> 15, minB |-> 0, maxB |-> 12],
       [minA |-> 2, maxA |-> 20, minB |-> 0, maxB |-> 15],
       [minA |-> 2, maxA |-> 25, minB |-> 0, maxB |-> 20],
       [minA |-> 3, maxA |-> 30, minB |-> 0, maxB |-> 25],
       [minA |-> 3, maxA |-> 40, minB |-> 0, maxB |-> 30],
       [minA |-> 4, maxA |-> 50, minB |-> 0, maxB |-> 40],
       [minA |-> 5, maxA |-> 60, minB |-> 0, maxB |-> 50],
       [minA |-> 6, maxA |-> 75, minB |-> 0, maxB |-> 60],
       [minA |-> 8, maxA |-> 90, minB |-> 0, maxB |-> 70] >>

LEVELS == [add |-> AddLevels, sub |-> SubLevels, mul |-> MulLevels, div |-> DivLevels]

MAX_LEVEL == Len(LEVELS.add)

(***************************************************************************)
(* Pure helpers.                                                           *)
(***************************************************************************)
Min2(a, b) == IF a <= b THEN a ELSE b

Max2(a, b) == IF a >= b THEN a ELSE b

\* Math.min(Math.max(value, min), max)
clamp(value, min, max) == Min2(Max2(value, min), max)

\* the value of an array read: the element at a zero-based index, or
\* Undefined when the index is outside the array
Undefined == [undefined |-> TRUE]

ArrayAt(arr, index) == IF index + 1 \in DOMAIN arr THEN arr[index + 1] ELSE Undefined

\* mutant: the index clamped from below only
getLevelSpecNoUpperClamp(skill, level) ==
    LET specs == LEVELS[skill]
    IN  ArrayAt(specs, Max2(level - 1, 0))

getLevelSpec(skill, level) ==
    LET specs == LEVELS[skill]
    IN  ArrayAt(specs, clamp(level - 1, 0, Len(specs) - 1))

createDefaultStats ==
    [s \in SkillKey |-> [level |-> 1, streak |-> 0, mistakeStreak |-> 0, history |-> <<>>]]

\* keeps dropping below the floor
getTargetMsNoFloor(level) ==
    LET base == 6000
        drop == 300
    IN  Min2(base - level * drop, 6000)

getTargetMs(level) ==
    LET base == 6000
        drop == 300
    IN  clamp(base - level * drop, 2400, 6000)

(***************************************************************************)
(* updateStats, step by step.                                              *)
(***************************************************************************)
\* Array.prototype.slice(-n): the last n elements, all of them when fewer
SliceLast(arr, n) ==
    IF Len(arr) <= n THEN arr ELSE SubSeq(arr, Len(arr) - n + 1, Len(arr))

\* mutant: the cap keeps the first MAX_HISTORY entries (slice(0, MAX_HISTORY))
NextHistoryKeepOldest(history, correct, ms) ==
    SubSeq(Append(history, [correct |-> correct, ms |-> ms]), 1,
           Min2(Len(history) + 1, MAX_HISTORY))

\* [...current.history, { correct, ms }].slice(-MAX_HISTORY)
NextHistory(history, correct, ms) ==
    SliceLast(Append(history, [correct |-> correct, ms |-> ms]), MAX_HISTORY)

NextStreak(current, correct) == IF correct THEN current.streak + 1 ELSE 0

NextMistakeStreak(current, correct) == IF correct THEN 0 ELSE current.mistakeStreak + 1

\* mutant: the level-up rule without its clamp at levelMax
LevelAfterUpUnclamped(current, correct, ms, levelMax) ==
    IF correct /\ NextStreak(current, correct) >= 3 /\ ms <= getTargetMs(current.level)
    THEN current.level + 1
    ELSE current.level

\* mutant: the level-up rule with the speed gate strict (ms < target)
LevelAfterUpStrictGate(current, correct, ms, levelMax) ==
    IF correct /\ NextStreak(current, correct) >= 3 /\ ms < getTargetMs(current.level)
    THEN clamp(current.level + 1, 1, levelMax)
    ELSE current.level

\* the first if: the level after the level-up rule
LevelAfterUp(current, correct, ms, levelMax) ==
    IF correct /\ NextStreak(current, correct) >= 3 /\ ms <= getTargetMs(current.level)
    THEN clamp(current.level + 1, 1, levelMax)
    ELSE current.level

\* mutant: the level-down rule without its clamp at 1
LevelAfterDownUnclamped(current, correct, levelSoFar, levelMax) ==
    IF ~correct /\ NextMistakeStreak(current, correct) >= 2
    THEN current.level - 1
    ELSE levelSoFar

\* mutant: the level-down rule firing on the third consecutive miss
LevelAfterDownLate(current, correct, levelSoFar, levelMax) ==
    IF ~correct /\ NextMistakeStreak(current, correct) >= 3
    THEN clamp(current.level - 1, 1, levelMax)
    ELSE levelSoFar

\* the second if: the level after the level-down rule, given the level so far
LevelAfterDown(current, correct, levelSoFar, levelMax) ==
    IF ~correct /\ NextMistakeStreak(current, correct) >= 2
    THEN clamp(current.level - 1, 1, levelMax)
    ELSE levelSoFar

\* leveledUp: set only inside the first if, to nextLevel !== current.level
LeveledUp(current, correct, ms, levelMax) ==
    LevelAfterUp(current, correct, ms, levelMax) # current.level

\* leveledDown: set only inside the second if, to nextLevel !== current.level
LeveledDown(current, correct, nextLevel) ==
    /\ ~correct
    /\ NextMistakeStreak(current, correct) >= 2
    /\ nextLevel # current.level

CommitStreak(correct, leveledUp, nextStreak) ==
    IF correct /\ ~leveledUp THEN nextStreak ELSE 0

\* mutant: the mistake streak is committed as counted, not reset by a level-down
CommitMistakeStreakKeepCount(correct, leveledDown, nextMistakeStreak) ==
    IF ~correct THEN nextMistakeStreak ELSE 0

\* mutant: the mistake streak is reset whenever the level-down rule fires,
\* whether or not the level moved
CommitMistakeStreakResetAtRule(correct, leveledDown, nextMistakeStreak) ==
    IF ~correct /\ nextMistakeStreak < 2 THEN nextMistakeStreak ELSE 0

CommitMistakeStreak(correct, leveledDown, nextMistakeStreak) ==
    IF ~correct /\ ~leveledDown THEN nextMistakeStreak ELSE 0

\* mutant: streak is written on a correct result only, and otherwise kept
\* from the spread ...current
NextSkillStatsKeepStreak(current, correct, ms, levelMax) ==
    LET levelUp == LevelAfterUp(current, correct, ms, levelMax)
        leveledUp == LeveledUp(current, correct, ms, levelMax)
        nextLevel == LevelAfterDown(current, correct, levelUp, levelMax)
        leveledDown == LeveledDown(current, correct, nextLevel)
    IN  [ level |-> nextLevel,
          streak |-> IF correct
                     THEN CommitStreak(correct, leveledUp, NextStreak(current, correct))
                     ELSE current.streak,
          mistakeStreak |->
              CommitMistakeStreak(correct, leveledDown, NextMistakeStreak(current, correct)),
          history |-> NextHistory(current.history, correct, ms) ]

\* mutant: the streak is committed as counted, not reset by a level-up
NextSkillStatsKeepCount(current, correct, ms, levelMax) ==
    LET levelUp == LevelAfterUp(current, correct, ms, levelMax)
        nextLevel == LevelAfterDown(current, correct, levelUp, levelMax)
        leveledDown == LeveledDown(current, correct, nextLevel)
    IN  [ level |-> nextLevel,
          streak |-> CommitStreak(correct, FALSE, NextStreak(current, correct)),
          mistakeStreak |->
              CommitMistakeStreak(correct, leveledDown, NextMistakeStreak(current, correct)),
          history |-> NextHistory(current.history, correct, ms) ]

\* mutant: mistakeStreak is written on an incorrect result only, and
\* otherwise kept from the spread ...current
NextSkillStatsKeepMistakeStreak(current, correct, ms, levelMax) ==
    LET levelUp == LevelAfterUp(current, correct, ms, levelMax)
        leveledUp == LeveledUp(current, correct, ms, levelMax)
        nextLevel == LevelAfterDown(current, correct, levelUp, levelMax)
        leveledDown == LeveledDown(current, correct, nextLevel)
    IN  [ level |-> nextLevel,
          streak |-> CommitStreak(correct, leveledUp, NextStreak(current, correct)),
          mistakeStreak |->
              IF correct THEN current.mistakeStreak
              ELSE CommitMistakeStreak(correct, leveledDown,
                                       NextMistakeStreak(current, correct)),
          history |-> NextHistory(current.history, correct, ms) ]

\* mutant: a correct result slower than the target time resets the streak
NextSkillStatsResetSlow(current, correct, ms, levelMax) ==
    LET levelUp == LevelAfterUp(current, correct, ms, levelMax)
        leveledUp == LeveledUp(current, correct, ms, levelMax)
        nextLevel == LevelAfterDown(current, correct, levelUp, levelMax)
        leveledDown == LeveledDown(current, correct, nextLevel)
    IN  [ level |-> nextLevel,
          streak |-> IF ms <= getTargetMs(current.level)
                     THEN CommitStreak(correct, leveledUp, NextStreak(current, correct))
                     ELSE 0,
          mistakeStreak |->
              CommitMistakeStreak(correct, leveledDown, NextMistakeStreak(current, correct)),
          history |-> NextHistory(current.history, correct, ms) ]

\* the SkillStats updateStats builds for the skill it is called on
NextSkillStats(current, correct, ms, levelMax) ==
    LET levelUp == LevelAfterUp(current, correct, ms, levelMax)
        leveledUp == LeveledUp(current, correct, ms, levelMax)
        nextLevel == LevelAfterDown(current, correct, levelUp, levelMax)
        leveledDown == LeveledDown(current, correct, nextLevel)
    IN  [ level |-> nextLevel,
          streak |-> CommitStreak(correct, leveledUp, NextStreak(current, correct)),
          mistakeStreak |->
              CommitMistakeStreak(correct, leveledDown, NextMistakeStreak(current, correct)),
          history |-> NextHistory(current.history, correct, ms) ]

\* mutant: the returned object without the spread ...stats: the other
\* skills fall back to their defaults
SpreadWithoutRest(st, skill, value) ==
    [s \in SkillKey |-> IF s = skill THEN value ELSE createDefaultStats[s]]

\* { ...stats, [skill]: { ... } }
SpreadWith(st, skill, value) == [st EXCEPT ![skill] = value]

updateStats(st, skill, correct, ms) ==
    SpreadWith(st, skill, NextSkillStats(st[skill], correct, ms, Len(LEVELS[skill])))

(***************************************************************************)
(* The stats engine as a state machine: a caller holding a Stats value and *)
(* replacing it by updateStats(stats, skill, correct, ms) on every result. *)
(***************************************************************************)
\* elapsed times fed to updateStats: 1000 is within the target time of every
\* level; 5400 is the target time of level 2 exactly, so it is within the
\* target time at levels 1 and 2 and too slow at levels 3..12
MsValues == {1000, 5400}

\* the elapsed time of the results replayed to build a start state: the
\* smallest of MsValues
WarmMs == CHOOSE ms \in MsValues : \A other \in MsValues : ms <= other

\* one warm-up round: a correct result within target time for every skill
WarmRound(st) ==
    updateStats(updateStats(updateStats(updateStats(st,
        SKILL_LIST[1], TRUE, WarmMs), SKILL_LIST[2], TRUE, WarmMs),
        SKILL_LIST[3], TRUE, WarmMs), SKILL_LIST[4], TRUE, WarmMs)

\* the number of warm-up rounds after which every skill stands at level L
WarmCalls(L) == 3 * (L - 1)

\* createDefaultStats() followed by n warm-up rounds, that is by updateStats
\* calls only: every value is a Stats the program reaches from the default
\* (the set binds st to the value of the previous rounds before the next
\* round is evaluated on it, which keeps the evaluation shallow)
WarmStatsAfter[n \in 0..WarmCalls(MAX_LEVEL)] ==
    IF n = 0 THEN createDefaultStats
    ELSE CHOOSE next \in {WarmRound(st) : st \in {WarmStatsAfter[n - 1]}} : TRUE

WarmStats(L) == WarmStatsAfter[WarmCalls(L)]

NoQuery == [skill |-> "none", level |-> 0]

Pending == [pending |-> TRUE]

\* the parts of the state a specification does not use stay at these values
LookupIdle == query = NoQuery /\ found = Pending /\ target = Pending

GenIdle == request = Pending /\ question = Pending

SelectIdle == answer = Pending

LedgerIdle == mistakes = <<>> /\ clock = 0 /\ ledgerLog = <<>>

\* the JavaScript value null
Null == [null |-> TRUE]

DEFAULT_SETTINGS ==
    [questionCount |-> 10, timeLimitSeconds |-> 10, negativeLevel |-> 0]

\* the useState and useRef cells of Home as the component is constructed
\* with (stats, mistakes and question are variables of their own); the
\* text of the answer box is the sequence of its characters
HomeState ==
    [ ready |-> FALSE,
      mode |-> "mix",
      screen |-> "menu",
      settings |-> DEFAULT_SETTINGS,
      sessionKind |-> "standard",
      mistakeQueue |-> <<>>,
      answer |-> <<>>,
      showTip |-> FALSE,
      feedback |-> Null,
      error |-> Null,
      session |-> [correct |-> 0, wrong |-> 0],
      questionIndex |-> 1,
      timeLeft |-> DEFAULT_SETTINGS.timeLimitSeconds,
      answered |-> FALSE,
      startTime |-> 0,
      advanceTimer |-> Null ]

PageIdle == page = HomeState /\ pageLast = Pending

StatsInit ==
    /\ \E L \in 1..MAX_LEVEL :
          /\ warm = L
          /\ stats = WarmStats(L)
    /\ log = <<>>
    /\ LookupIdle
    /\ GenIdle
    /\ SelectIdle
    /\ LedgerIdle
    /\ PageIdle

\* the control state of a SkillStats: what the leveling rules read and write
Counters(skillStats) ==
    [ level |-> skillStats.level,
      streak |-> skillStats.streak,
      mistakeStreak |-> skillStats.mistakeStreak ]

\* one call of updateStats, its result replacing the caller's Stats; the log
\* records the arguments and the called skill's counters before and after
UpdateStats(skill, correct, ms) ==
    /\ Len(log) < MaxCalls
    /\ stats' = updateStats(stats, skill, correct, ms)
    /\ log' = Append(log, [ skill |-> skill, correct |-> correct, ms |-> ms,
                            before |-> Counters(stats[skill]),
                            after |-> Counters(stats'[skill]) ])
    /\ UNCHANGED <<warm, lookupVars, genVars, answer, ledgerVars, pageVars>>

StatsNext ==
    \E skill \in SkillKey, correct \in BOOLEAN, ms \in MsValues :
        UpdateStats(skill, correct, ms)

StatsSpec == StatsInit /\ [][StatsNext]_vars

(***************************************************************************)
(* Reading the history variables.                                          *)
(***************************************************************************)
\* the counters of the called skill before and after the i-th logged call
Pre(i) == log[i].before

Post(i) == log[i].after

\* the logged calls made for a skill, oldest first
Own(skill) == SelectSeq(log, LAMBDA e : e.skill = skill)

\* the results of the warm-up rounds of the highest start level, per skill
WarmFeedMax == [i \in 1..WarmCalls(MAX_LEVEL) |-> [correct |-> TRUE, ms |-> WarmMs]]

RECURSIVE Results(_)
\* the (correct, ms) results of a sequence of logged calls
Results(calls) ==
    IF calls = <<>> THEN <<>>
    ELSE <<[correct |-> Head(calls).correct, ms |-> Head(calls).ms]>>
         \o Results(Tail(calls))

\* every result fed to a skill since createDefaultStats(), oldest first:
\* those of the warm-up rounds, then those of the logged calls
Fed(skill) == SubSeq(WarmFeedMax, 1, WarmCalls(warm)) \o Results(Own(skill))

\* the last min(Len(seq), k) elements of seq, in order
MostRecent(seq, k) ==
    IF Len(seq) <= k THEN seq ELSE SubSeq(seq, Len(seq) - k + 1, Len(seq))

\* the i-th logged call met the level-up rule: correct, third of a streak or
\* later, within the target time of the level it was answered at
Qualifies(i) ==
    /\ log[i].correct
    /\ Pre(i).streak + 1 >= 3
    /\ log[i].ms <= getTargetMs(Pre(i).level)

(***************************************************************************)
(* Claims about the leveling state machine, under StatsSpec.               *)
(***************************************************************************)
\* C1: starting from createDefaultStats() and applying any sequence of
\* updateStats calls, every skill's level stays within [1, MAX_LEVEL], and
\* MAX_LEVEL is 12.
C1_LevelInRange ==
    /\ MAX_LEVEL = 12
    /\ \A skill \in SkillKey : stats[skill].level \in 1..MAX_LEVEL

\* C1 witness: a call that met the level-up rule at level MAX_LEVEL has been made.
C1_Witness ==
    \E i \in DOMAIN log : Qualifies(i) /\ Pre(i).level = MAX_LEVEL

\* C2: after n updateStats calls for one skill from an empty history, the
\* skill's history is exactly the most recent min(n, 12) results in arrival
\* order, newest last, and it never holds more than 12 entries.
C2_HistoryIsMostRecent ==
    \A skill \in SkillKey :
        /\ Len(stats[skill].history) <= 12
        /\ stats[skill].history = MostRecent(Fed(skill), 12)

\* C2 witness: a skill was fed more than 12 results, the last two of them
\* logged calls with different outcomes and times, so that an old entry has
\* been dropped to keep them.
C2_Witness ==
    \E skill \in SkillKey :
        LET own == Own(skill)
        IN  /\ Len(Fed(skill)) > 12
            /\ Len(own) >= 2
            /\ own[Len(own)].correct # own[Len(own) - 1].correct
            /\ own[Len(own)].ms # own[Len(own) - 1].ms
            /\ Len(stats[skill].history) = 12

\* C3 as stated: in every state reachable from createDefaultStats() exactly
\* one of streak and mistakeStreak is nonzero.
C3_ExactlyOneNonzero ==
    \A skill \in SkillKey :
        (stats[skill].streak # 0) # (stats[skill].mistakeStreak # 0)

\* C3 amended: in every state reachable from createDefaultStats() at most
\* one of streak and mistakeStreak is nonzero (both are 0 in the default
\* state and right after a level change).
C3_AtMostOneNonzero ==
    \A skill \in SkillKey :
        ~(stats[skill].streak # 0 /\ stats[skill].mistakeStreak # 0)

\* C3 witness: the last call changed the level of its skill and left both
\* counters of that skill at 0, while an earlier call had left one nonzero.
C3_Witness ==
    /\ Len(log) >= 2
    /\ Post(Len(log)).level # Pre(Len(log)).level
    /\ Post(Len(log)).streak = 0
    /\ Post(Len(log)).mistakeStreak = 0
    /\ \E i \in DOMAIN log : Post(i).streak # 0 \/ Post(i).mistakeStreak # 0

\* C4: updateStats raises the skill's level by exactly 1 if and only if
\* correct is true, streak + 1 >= 3, ms <= getTargetMs(current level) and
\* current level < MAX_LEVEL; in every other case the level does not increase.
C4_LevelUpIff ==
    \A i \in DOMAIN log :
        /\ (Post(i).level = Pre(i).level + 1)
               <=> (Qualifies(i) /\ Pre(i).level < MAX_LEVEL)
        /\ Post(i).level <= Pre(i).level + 1

\* C4 witness: a logged call raised a level, the third correct result of a
\* streak with ms equal to the target time of the level.
C4_Witness ==
    \E i \in DOMAIN log :
        /\ Post(i).level = Pre(i).level + 1
        /\ Pre(i).streak = 2
        /\ log[i].ms = getTargetMs(Pre(i).level)

\* C5: updateStats lowers the skill's level by exactly 1 if and only if
\* correct is false, mistakeStreak + 1 >= 2 and current level > 1; in every
\* other case the level does not decrease.
C5_LevelDownIff ==
    \A i \in DOMAIN log :
        /\ (Post(i).level = Pre(i).level - 1)
               <=> (/\ ~log[i].correct
                    /\ Pre(i).mistakeStreak + 1 >= 2
                    /\ Pre(i).level > 1)
        /\ Post(i).level >= Pre(i).level - 1

\* C5 witness: a second consecutive miss lowered a level, after a first
\* miss on the same skill that did not.
C5_Witness ==
    \E i, j \in DOMAIN log :
        /\ i < j
        /\ log[i].skill = log[j].skill
        /\ ~log[i].correct /\ Post(i).level = Pre(i).level
        /\ ~log[j].correct /\ Post(j).level = Pre(j).level - 1

\* the elapsed times of MsValues within the target time of level L
Within(L) == {ms \in MsValues : ms <= getTargetMs(L)}

\* the skills whose SkillStats the current state is the first to hold: all
\* four in a start state, the called skill after a call (the other three
\* are those of the state before, see C9)
Fresh == IF log = <<>> THEN SkillKey ELSE {log[Len(log)].skill}

\* C6: from any reachable skill state with level L < MAX_LEVEL, three
\* consecutive correct results for the skill, each with ms <= getTargetMs(L),
\* raise the level exactly once (final level L + 1, never L + 2), and streak
\* is 0 right after the call that raised it.
C6_ThreeCorrectRaiseOnce ==
    \A skill \in Fresh :
        LET L == stats[skill].level
        IN  L < MAX_LEVEL =>
            \A m1 \in Within(L) : \A s1 \in {updateStats(stats, skill, TRUE, m1)} :
            \A m2 \in Within(L) : \A s2 \in {updateStats(s1, skill, TRUE, m2)} :
            \A m3 \in Within(L) : \A s3 \in {updateStats(s2, skill, TRUE, m3)} :
                LET up1 == s1[skill].level - L
                    up2 == s2[skill].level - s1[skill].level
                    up3 == s3[skill].level - s2[skill].level
                IN  /\ s3[skill].level = L + 1
                    /\ <<up1, up2, up3>> \in {<<1, 0, 0>>, <<0, 1, 0>>, <<0, 0, 1>>}
                    /\ up1 = 1 => s1[skill].streak = 0
                    /\ up2 = 1 => s2[skill].streak = 0
                    /\ up3 = 1 => s3[skill].streak = 0

\* C6 witness: the scenario of the example has run: from the default stats,
\* three updateStats("mul", true, 1000) left mul at level 2 with streak 0.
C6_Witness ==
    /\ warm = 1
    /\ Len(log) = 3
    /\ \A i \in DOMAIN log :
          log[i].skill = "mul" /\ log[i].correct /\ log[i].ms = 1000
    /\ stats["mul"].level = 2
    /\ stats["mul"].streak = 0

\* C7: from any reachable skill state with level L > 1, two consecutive
\* incorrect results for the skill lower the level exactly once (final level
\* L - 1), and mistakeStreak is 0 right after the call that lowered it.
C7_TwoMissesLowerOnce ==
    \A skill \in Fresh :
        LET L == stats[skill].level
        IN  L > 1 =>
            \A m1 \in MsValues : \A s1 \in {updateStats(stats, skill, FALSE, m1)} :
            \A m2 \in MsValues : \A s2 \in {updateStats(s1, skill, FALSE, m2)} :
                LET down1 == L - s1[skill].level
                    down2 == s1[skill].level - s2[skill].level
                IN  /\ s2[skill].level = L - 1
                    /\ <<down1, down2>> \in {<<1, 0>>, <<0, 1>>}
                    /\ down1 = 1 => s1[skill].mistakeStreak = 0
                    /\ down2 = 1 => s2[skill].mistakeStreak = 0

\* C7 witness: after one miss already counted at a level above 1, two more
\* misses on the skill have been logged, the first of which lowered the level.
C7_Witness ==
    \E i, j \in DOMAIN log :
        /\ j = i + 1
        /\ log[i].skill = log[j].skill
        /\ ~log[i].correct /\ ~log[j].correct
        /\ Pre(i).level > 1
        /\ Pre(i).mistakeStreak = 1
        /\ Post(i).level = Pre(i).level - 1 /\ Post(i).mistakeStreak = 0
        /\ Post(j).level = Pre(i).level - 1 /\ Post(j).mistakeStreak = 1

\* C8: a skill at level MAX_LEVEL stays at MAX_LEVEL under every further
\* correct result within target time, and a skill at level 1 stays at level
\* 1 under every further incorrect result.
C8_NoMoveAtBounds ==
    \A i \in DOMAIN log :
        /\ (/\ Pre(i).level = MAX_LEVEL
            /\ log[i].correct
            /\ log[i].ms <= getTargetMs(MAX_LEVEL))
               => Post(i).level = MAX_LEVEL
        /\ (Pre(i).level = 1 /\ ~log[i].correct) => Post(i).level = 1

\* C8 witness: three incorrect results in a row have been fed to a skill at
\* level 1, the second and third of which met the level-down rule.
C8_Witness ==
    /\ Len(log) >= 3
    /\ \A i \in 1..3 :
          /\ log[i].skill = log[1].skill
          /\ ~log[i].correct
          /\ Pre(i).level = 1 /\ Post(i).level = 1
    /\ Pre(3).mistakeStreak = 2

\* C9: updateStats(stats, skill, correct, ms) returns a Stats in which the
\* SkillStats of the three skills other than skill (level, streak,
\* mistakeStreak, history) are identical to those in the input.
C9_OtherSkillsUntouched ==
    [][ \A skill \in SkillKey :
            (Len(log') = Len(log) + 1 /\ log'[Len(log')].skill # skill)
                => stats'[skill] = stats[skill] ]_vars

\* C9 witness: a call has been made for one skill while the other three
\* held results of their own (a level above 1 and a full history).
C9_Witness ==
    /\ Len(log) >= 1
    /\ \A skill \in SkillKey \ {log[Len(log)].skill} :
          /\ stats[skill].level > 1
          /\ Len(stats[skill].history) = 12
    /\ Post(Len(log)) # Pre(Len(log))

(***************************************************************************)
(* getLevelSpec as a state machine: a lookup for a drawn (skill, level).   *)
(***************************************************************************)
\* the levels looked up: around [1, MAX_LEVEL] on both sides, and 999
LevelInputs == ((1 - LevelSlack)..(MAX_LEVEL + LevelSlack)) \cup {999}

LookupInit ==
    /\ stats = createDefaultStats
    /\ warm = 1
    /\ log = <<>>
    /\ query \in [skill : SkillKey, level : LevelInputs]
    /\ found = Pending
    /\ target = Pending
    /\ GenIdle
    /\ SelectIdle
    /\ LedgerIdle
    /\ PageIdle

Lookup ==
    /\ found = Pending
    /\ found' = getLevelSpec(query.skill, query.level)
    /\ UNCHANGED <<stats, warm, log, query, target, genVars, answer,
                   ledgerVars, pageVars>>

\* a getTargetMs call for the drawn level
TargetMs ==
    /\ target = Pending
    /\ target' = [ms |-> getTargetMs(query.level)]
    /\ UNCHANGED <<stats, warm, log, query, found, genVars, answer,
                   ledgerVars, pageVars>>

LookupNext == Lookup \/ TargetMs

LookupSpec == LookupInit /\ [][LookupNext]_vars

(***************************************************************************)
(* Claims about getLevelSpec, under LookupSpec.                            *)
(***************************************************************************)
\* the level a lookup is meant to land on: level clamped into [1, MAX_LEVEL]
ClampedLevel(level) ==
    IF level <= 1 THEN 1 ELSE IF level >= MAX_LEVEL THEN MAX_LEVEL ELSE level

\* C10: getLevelSpec(skill, level) never fails and clamps the level into
\* [1, MAX_LEVEL]: every lookup returns the table entry of the clamped level,
\* so any level <= 1 (e.g. 0) gives the level-1 spec and any level >=
\* MAX_LEVEL (e.g. 999) gives the level-MAX_LEVEL spec.
C10_LookupClamps ==
    found # Pending =>
        /\ found # Undefined
        /\ found = LEVELS[query.skill][ClampedLevel(query.level)]
        /\ query.level <= 1 => found = getLevelSpec(query.skill, 1)
        /\ query.level >= MAX_LEVEL => found = getLevelSpec(query.skill, MAX_LEVEL)
        /\ getLevelSpec(query.skill, 0) = LEVELS[query.skill][1]
        /\ getLevelSpec(query.skill, 999) = LEVELS[query.skill][MAX_LEVEL]

\* C10 witness: the lookup of level 999 has returned the level-12 spec of
\* "div", which is not its level-1 spec.
C10_Witness ==
    /\ query = [skill |-> "div", level |-> 999]
    /\ found = [minA |-> 8, maxA |-> 90, minB |-> 0, maxB |-> 70]
    /\ found # LEVELS["div"][1]

(***************************************************************************)
(* Reads of a Stats value.  A JavaScript number that is a quotient n / d   *)
(* with d <= MAX_HISTORY, or one of the literals 0.55 and 0.15, is held    *)
(* exactly as the integer number of Units in it, Unit being 1 / UnitsPerOne.*)
(***************************************************************************)
UnitsPerOne == 2 * 2 * 2 * 3 * 3 * 5 * 7 * 11

\* the literal h / 100 in Units (0.55 and 0.15 are whole numbers of Units)
Hundredths(h) == (h * UnitsPerOne) \div 100

\* history.reduce((total, item) => total + (item.correct ? 1 : 0), 0):
\* one for every correct item
CorrectTotal(history) ==
    Cardinality({i \in 1..Len(history) : history[i].correct})

RECURSIVE MsTotalUpTo(_, _)
\* the sum of item.ms over the first n items
MsTotalUpTo(history, n) ==
    IF n = 0 THEN 0 ELSE MsTotalUpTo(history, n - 1) + history[n].ms

\* stats.history.reduce((sum, item) => sum + item.ms, 0)
MsTotal(history) == MsTotalUpTo(history, Len(history))

\* 0.55 for an empty history
accuracyFromHistoryDefaulted(history) ==
    IF Len(history) = 0 THEN Hundredths(55)
    ELSE (CorrectTotal(history) * UnitsPerOne) \div Len(history)

\* in Units
accuracyFromHistory(history) ==
    IF Len(history) = 0 THEN 0
    ELSE (CorrectTotal(history) * UnitsPerOne) \div Len(history)

\* in Units
getAccuracy(skillStats) == accuracyFromHistory(skillStats.history)

\* in Units of a millisecond
getAverageMs(skillStats) ==
    IF Len(skillStats.history) = 0 THEN 0
    ELSE (MsTotal(skillStats.history) * UnitsPerOne) \div Len(skillStats.history)

\* the score both selections give a skill, in Units
Score(history) ==
    IF Len(history) = 0 THEN Hundredths(55) ELSE accuracyFromHistory(history)

RECURSIVE WeakestFromLast(_, _, _, _)
\* a tie goes to the later skill
WeakestFromLast(st, i, weakest, weakestScore) ==
    IF i > Len(SKILL_LIST) THEN weakest
    ELSE LET skill == SKILL_LIST[i]
             score == Score(st[skill].history)
         IN  IF score <= weakestScore
             THEN WeakestFromLast(st, i + 1, skill, score)
             ELSE WeakestFromLast(st, i + 1, weakest, weakestScore)

RECURSIVE WeakestFrom(_, _, _, _)
\* the forEach of getWeakestSkill from position i on
WeakestFrom(st, i, weakest, weakestScore) ==
    IF i > Len(SKILL_LIST) THEN weakest
    ELSE LET skill == SKILL_LIST[i]
             score == Score(st[skill].history)
         IN  IF score < weakestScore
             THEN WeakestFrom(st, i + 1, skill, score)
             ELSE WeakestFrom(st, i + 1, weakest, weakestScore)

getWeakestSkill(st) == WeakestFrom(st, 1, SKILL_LIST[1], UnitsPerOne)

\* no lower limit on the weight
WeightNoFloor(history) == UnitsPerOne - Score(history)

\* the weight pickSkill gives a skill, in Units
Weight(history) == Max2(Hundredths(15), UnitsPerOne - Score(history))

RECURSIVE WeightTotal(_, _)
\* weighted.reduce((sum, item) => sum + item.weight, 0), up to position i
WeightTotal(st, i) ==
    IF i = 0 THEN 0
    ELSE WeightTotal(st, i - 1) + Weight(st[SKILL_LIST[i]].history)

RECURSIVE PickFrom(_, _, _)
\* the for loop of pickSkill from position i on; roll in Units / RollDen
PickFrom(st, i, roll) ==
    IF i > Len(SKILL_LIST) THEN "add"
    ELSE LET rest == roll - Weight(st[SKILL_LIST[i]].history) * RollDen
         IN  IF rest <= 0 THEN SKILL_LIST[i] ELSE PickFrom(st, i + 1, rest)

\* pickSkill with Math.random() = random / RollDen
pickSkill(st, random) ==
    PickFrom(st, 1, random * WeightTotal(st, Len(SKILL_LIST)))

(***************************************************************************)
(* The question generator.                                                 *)
(***************************************************************************)
Mode == SkillKey \cup {"mix"}

\* the rolls drawn for Math.random(): evenly spread, 0 and RollDen - 1 included
Rolls == {(i * (RollDen - 1)) \div RollSteps : i \in 0..RollSteps}

\* the hexadecimal digits Math.random().toString(16).slice(2) gives an id
Salts == {"8f3a", "c41"}

\* value ?? fallback for an optional field of a record
Coalesce(rec, field, fallback) ==
    IF field \in DOMAIN rec THEN rec[field] ELSE fallback

\* overshoots max by one on the highest roll
randomIntOpen(min, max, random) ==
    ((random * (max - min + 2)) \div RollDen) + min

\* randomInt for integer min <= max, with Math.random() = random / RollDen
randomInt(min, max, random) ==
    LET safeMin == min
        safeMax == max
    IN  ((random * (safeMax - safeMin + 1)) \div RollDen) + safeMin

\* the operands a and b that generateQuestion draws
Draws(skill, level, randomA, randomB) ==
    LET spec == getLevelSpec(skill, level)
        minA == Coalesce(spec, "minA", 0)
        minB == Coalesce(spec, "minB", 0)
    IN  [ a |-> randomInt(minA, spec.maxA, randomA),
          b |-> randomInt(minB, spec.maxB, randomB) ]

\* negatives allowed unless the caller says otherwise
AllowNegativeDefaultTrue(options, spec) ==
    Coalesce(options, "allowNegative", Coalesce(spec, "allowNegative", TRUE))

\* options?.allowNegative ?? spec.allowNegative ?? false
AllowNegative(options, spec) ==
    Coalesce(options, "allowNegative", Coalesce(spec, "allowNegative", FALSE))

\* always the larger operand
HighAlwaysMax(allowNegative, a, b) == Max2(a, b)

High(allowNegative, a, b) == IF allowNegative THEN a ELSE Max2(a, b)

Low(allowNegative, a, b) == IF allowNegative THEN b ELSE Min2(a, b)

\* the sum in place of the product
DividendSum(divisor, quotient) == divisor + quotient

Dividend(divisor, quotient) == divisor * quotient

\* `${skill}-${Date.now()}-${Math.random().toString(16).slice(2)}`
QuestionId(skill, now, salt) == skill \o "-" \o ToString(now) \o "-" \o salt

\* `${left} ${symbol} ${right}`
QuestionText(left, symbol, right) ==
    ToString(left) \o " " \o symbol \o " " \o ToString(right)

generateQuestion(skill, level, options, randomA, randomB, now, salt) ==
    LET spec == getLevelSpec(skill, level)
        drawn == Draws(skill, level, randomA, randomB)
        a == drawn.a
        b == drawn.b
        id == QuestionId(skill, now, salt)
    IN  IF skill = "add"
        THEN [ id |-> id, text |-> QuestionText(a, "+", b), answer |-> a + b,
               skill |-> skill, level |-> level ]
        ELSE IF skill = "sub"
        THEN LET allowNegative == AllowNegative(options, spec)
                 high == High(allowNegative, a, b)
                 low == Low(allowNegative, a, b)
             IN  [ id |-> id, text |-> QuestionText(high, "-", low),
                   answer |-> high - low, skill |-> skill, level |-> level ]
        ELSE IF skill = "mul"
        THEN [ id |-> id, text |-> QuestionText(a, "x", b), answer |-> a * b,
               skill |-> skill, level |-> level ]
        ELSE LET divisor == Max2(1, a)
                 quotient == b
                 dividend == Dividend(divisor, quotient)
             IN  [ id |-> id, text |-> QuestionText(dividend, "/", divisor),
                   answer |-> quotient, skill |-> skill, level |-> level ]

\* the skill createQuestion asks a question of
CreateSkill(selectedMode, snapshot, randomPick) ==
    IF selectedMode = "mix" THEN pickSkill(snapshot, randomPick) ELSE selectedMode

\* the allowNegative option createQuestion passes
CreateAllowNegative(skill, level, negativeLevel) ==
    skill = "sub" /\ negativeLevel > 0 /\ level >= negativeLevel

\* mutant: the level is read from the stats the page was constructed
\* with, not from the snapshot handed over
createQuestionStale(selectedMode, snapshot, negativeLevel, randomPick, randomA, randomB, now, salt) ==
    LET skill == CreateSkill(selectedMode, snapshot, randomPick)
        level == createDefaultStats[skill].level
        allowNegative == CreateAllowNegative(skill, level, negativeLevel)
    IN  generateQuestion(skill, level, [allowNegative |-> allowNegative],
                         randomA, randomB, now, salt)

createQuestion(selectedMode, snapshot, negativeLevel, randomPick, randomA, randomB, now, salt) ==
    LET skill == CreateSkill(selectedMode, snapshot, randomPick)
        level == snapshot[skill].level
        allowNegative == CreateAllowNegative(skill, level, negativeLevel)
    IN  generateQuestion(skill, level, [allowNegative |-> allowNegative],
                         randomA, randomB, now, salt)

(***************************************************************************)
(* The generator as a state machine: one request, made either directly to  *)
(* generateQuestion or through createQuestion with the settings and the    *)
(* stats snapshot of the page.  request records the arguments, the rolls   *)
(* and the operands drawn.                                                 *)
(***************************************************************************)
\* the options argument: absent, or carrying allowNegative
OptionInputs == {Undefined, [allowNegative |-> TRUE], [allowNegative |-> FALSE]}

\* settings.negativeLevel is kept in [0, MAX_LEVEL]
NegativeLevels == 0..MAX_LEVEL

\* the stats snapshots createQuestion is given: the start states of StatsSpec
Snapshots == {WarmStats(L) : L \in 1..MAX_LEVEL}

GenInit ==
    /\ stats = createDefaultStats
    /\ warm = 1
    /\ log = <<>>
    /\ LookupIdle
    /\ GenIdle
    /\ SelectIdle
    /\ LedgerIdle
    /\ PageIdle

GenerateQuestion ==
    /\ question = Pending
    /\ \E skill \in SkillKey, level \in LevelInputs, options \in OptionInputs,
          randomA \in Rolls, randomB \in Rolls, salt \in Salts :
          /\ question' = generateQuestion(skill, level, options,
                                          randomA, randomB, clock, salt)
          /\ request' = [ via |-> "generateQuestion", skill |-> skill,
                          level |-> level, options |-> options,
                          negativeLevel |-> 0,
                          drawn |-> Draws(skill, level, randomA, randomB) ]
    /\ UNCHANGED <<stats, warm, log, lookupVars, answer, ledgerVars, pageVars>>

CreateQuestion ==
    /\ question = Pending
    /\ \E snapshot \in Snapshots, selectedMode \in Mode,
          negativeLevel \in NegativeLevels, randomA \in Rolls,
          randomB \in Rolls, salt \in Salts :
          \E randomPick \in IF selectedMode = "mix" THEN Rolls ELSE {0} :
          \E skill \in {CreateSkill(selectedMode, snapshot, randomPick)} :
             LET level == snapshot[skill].level
             IN  /\ question' = createQuestion(selectedMode, snapshot,
                                               negativeLevel, randomPick,
                                               randomA, randomB, clock, salt)
                 /\ request' = [ via |-> "createQuestion", skill |-> skill,
                                 level |-> level,
                                 options |-> [allowNegative |->
                                     CreateAllowNegative(skill, level,
                                                         negativeLevel)],
                                 negativeLevel |-> negativeLevel,
                                 drawn |-> Draws(skill, level, randomA, randomB) ]
    /\ UNCHANGED <<stats, warm, log, lookupVars, answer, ledgerVars, pageVars>>

GenNext == GenerateQuestion \/ CreateQuestion

GenSpec == GenInit /\ [][GenNext]_vars

(***************************************************************************)
(* Claims about the question generator, under GenSpec.                     *)
(***************************************************************************)
\* the level-table entry a request is served from
RequestSpec == LEVELS[request.skill][ClampedLevel(request.level)]

\* the lower end of an operand range: the entry's field, 0 when it has none
RangeMin(spec, field) == IF field \in DOMAIN spec THEN spec[field] ELSE 0

\* C11: every "div" question, at every level and for every draw of the
\* level table, reads "dividend / divisor" with divisor >= 1 and
\* dividend = divisor * answer, and its answer is the drawn quotient.
C11_DivisionIsExact ==
    (question # Pending /\ question.skill = "div") =>
        /\ question.answer = request.drawn.b
        /\ \E divisor \in 1..RequestSpec.maxA :
              question.text
                  = QuestionText(divisor * question.answer, "/", divisor)

\* C11 witness: the level-12 division with the highest draws, 6300 / 90 = 70.
C11_Witness ==
    /\ question # Pending
    /\ question.skill = "div"
    /\ request.level = MAX_LEVEL
    /\ question.text = "6300 / 90"
    /\ question.answer = 70

\* the request was for a subtraction and has been answered
SubAnswered == question # Pending /\ question.skill = "sub"

\* the caller of the request did not allow negatives: generateQuestion got
\* allowNegative false or no option at all; createQuestion ran with
\* settings.negativeLevel 0 or with the skill's level below it
NegativesDisallowed ==
    IF request.via = "generateQuestion"
    THEN request.options \in {Undefined, [allowNegative |-> FALSE]}
    ELSE request.negativeLevel = 0 \/ request.level < request.negativeLevel

\* C12: every "sub" question made with negatives disallowed has answer >= 0
\* and lists the larger operand first; negatives are disallowed when
\* generateQuestion gets allowNegative false or absent, which from
\* createQuestion is whenever settings.negativeLevel is 0 or the skill's
\* level is below settings.negativeLevel (otherwise the drawn order stays).
C12_NoNegativeWhenDisallowed ==
    SubAnswered =>
        LET a == request.drawn.a
            b == request.drawn.b
        IN  /\ NegativesDisallowed =>
                  /\ question.answer >= 0
                  /\ question.answer = Max2(a, b) - Min2(a, b)
                  /\ question.text = QuestionText(Max2(a, b), "-", Min2(a, b))
            /\ (request.via = "createQuestion" /\ ~NegativesDisallowed) =>
                  question.text = QuestionText(a, "-", b)

\* C12 witness: createQuestion at a level below settings.negativeLevel drew
\* a < b and asked "b - a".
C12_Witness ==
    /\ SubAnswered
    /\ request.via = "createQuestion"
    /\ request.negativeLevel > request.level
    /\ request.drawn.a < request.drawn.b
    /\ question.text = QuestionText(request.drawn.b, "-", request.drawn.a)
    /\ question.answer > 0

\* C13: generateQuestion("sub", level, {allowNegative: true}) keeps the
\* drawn order: the text is "A - B" and the answer is A - B, negative
\* exactly when A < B.
C13_DrawnOrderWhenAllowed ==
    (SubAnswered /\ request.options = [allowNegative |-> TRUE]) =>
        LET a == request.drawn.a
            b == request.drawn.b
        IN  /\ question.text = QuestionText(a, "-", b)
            /\ question.answer = a - b
            /\ question.answer < 0 <=> a < b

\* C13 witness: a direct call with allowNegative true drew a < b and
\* returned a negative answer.
C13_Witness ==
    /\ SubAnswered
    /\ request.via = "generateQuestion"
    /\ request.options = [allowNegative |-> TRUE]
    /\ request.drawn.a < request.drawn.b
    /\ question.answer < 0
    /\ question.text = QuestionText(request.drawn.a, "-", request.drawn.b)

\* C14: every "add" and "mul" question, at every level, has operands with
\* minA <= A <= maxA and minB <= B <= maxB of its level-table entry (a
\* missing minimum counts as 0) and answer A + B, respectively A * B; at
\* "add" level 1 this is 0 <= A <= 10 and 0 <= B <= 10.
C14_OperandsInRange ==
    (question # Pending /\ question.skill \in {"add", "mul"}) =>
        LET a == request.drawn.a
            b == request.drawn.b
        IN  /\ RangeMin(RequestSpec, "minA") <= a /\ a <= RequestSpec.maxA
            /\ RangeMin(RequestSpec, "minB") <= b /\ b <= RequestSpec.maxB
            /\ question.skill = "add" =>
                  /\ question.text = QuestionText(a, "+", b)
                  /\ question.answer = a + b
            /\ question.skill = "mul" =>
                  /\ question.text = QuestionText(a, "x", b)
                  /\ question.answer = a * b
            /\ (question.skill = "add" /\ ClampedLevel(request.level) = 1) =>
                  /\ 0 <= a /\ a <= 10
                  /\ 0 <= b /\ b <= 10

\* C14 witness: the level-1 addition with the highest draws, 10 + 10 = 20.
C14_Witness ==
    /\ question # Pending
    /\ question.skill = "add"
    /\ request.level = 1
    /\ question.text = "10 + 10"
    /\ question.answer = 20

(***************************************************************************)
(* Claims about getTargetMs, under LookupSpec.                             *)
(***************************************************************************)
\* C15: getTargetMs(level) is 6000 - 300 * level limited to [2400, 6000]
\* for every integer level; it never increases with the level, and over
\* the levels 1..12 it runs from 5700 down to exactly 2400, the floor being
\* reached at level 12.
C15_TargetMs ==
    target # Pending =>
        LET level == query.level
            linear == 6000 - 300 * level
        IN  /\ target.ms = IF linear < 2400 THEN 2400
                           ELSE IF linear > 6000 THEN 6000 ELSE linear
            /\ getTargetMs(level + 1) <= target.ms
            /\ (level >= 1 /\ level <= 12) =>
                  /\ target.ms <= 5700
                  /\ target.ms >= 2400
                  /\ target.ms = 5700 <=> level = 1
                  /\ target.ms = 2400 <=> level = 12
            /\ level >= 12 => target.ms = 2400

\* C15 witness: the call for level 12 returned 2400 and the call for level
\* 11 would return more.
C15_Witness ==
    /\ target # Pending
    /\ query.level = 12
    /\ target.ms = 2400
    /\ getTargetMs(11) = 2700

(***************************************************************************)
(* Reads of a Stats value as a state machine: the stats are a sample of    *)
(* the values updateStats can build, and one read is made of them.         *)
(***************************************************************************)
\* the histories sampled for a skill: right correct results followed by
\* wrong incorrect ones, either short or filling the whole window
SampleShapes ==
    {sh \in [right : 0..MaxSample, wrong : 0..MaxSample] :
        sh.right + sh.wrong <= MaxSample}
    \cup {[right |-> MAX_HISTORY - wrong, wrong |-> wrong] : wrong \in 0..1}

\* the results of a shape: correct ones are fast, incorrect ones slow
ShapeResults(sh) ==
    [i \in 1..(sh.right + sh.wrong) |->
        IF i <= sh.right
        THEN [correct |-> TRUE, ms |-> WarmMs]
        ELSE [correct |-> FALSE, ms |-> CHOOSE ms \in MsValues : ms # WarmMs]]

RECURSIVE FeedResults(_, _, _, _)
\* st after updateStats has been called for results[i], results[i + 1], ...
FeedResults(st, skill, results, i) ==
    IF i > Len(results) THEN st
    ELSE CHOOSE out \in
            {FeedResults(next, skill, results, i + 1) :
                next \in {updateStats(st, skill, results[i].correct,
                                      results[i].ms)}} : TRUE

RECURSIVE FeedSkills(_, _, _)
\* st after every skill from position i on has been fed its shape
FeedSkills(st, shapes, i) ==
    IF i > Len(SKILL_LIST) THEN st
    ELSE CHOOSE out \in
            {FeedSkills(next, shapes, i + 1) :
                next \in {FeedResults(st, SKILL_LIST[i],
                                      ShapeResults(shapes[SKILL_LIST[i]]), 1)}} :
            TRUE

SampleStats(shapes) == FeedSkills(createDefaultStats, shapes, 1)

SelectInit ==
    /\ \E shapes \in [SkillKey -> SampleShapes] : stats = SampleStats(shapes)
    /\ warm = 1
    /\ log = <<>>
    /\ LookupIdle
    /\ GenIdle
    /\ SelectIdle
    /\ LedgerIdle
    /\ PageIdle

GetAccuracy ==
    /\ answer = Pending
    /\ \E skill \in SkillKey :
          answer' = [ of |-> "getAccuracy", arg |-> skill,
                      value |-> getAccuracy(stats[skill]) ]
    /\ UNCHANGED <<stats, warm, log, lookupVars, genVars, ledgerVars, pageVars>>

GetAverageMs ==
    /\ answer = Pending
    /\ \E skill \in SkillKey :
          answer' = [ of |-> "getAverageMs", arg |-> skill,
                      value |-> getAverageMs(stats[skill]) ]
    /\ UNCHANGED <<stats, warm, log, lookupVars, genVars, ledgerVars, pageVars>>

GetWeakestSkill ==
    /\ answer = Pending
    /\ answer' = [ of |-> "getWeakestSkill", arg |-> "stats",
                   value |-> getWeakestSkill(stats) ]
    /\ UNCHANGED <<stats, warm, log, lookupVars, genVars, ledgerVars, pageVars>>

PickSkill ==
    /\ answer = Pending
    /\ \E random \in Rolls :
          answer' = [ of |-> "pickSkill", arg |-> random,
                      value |-> pickSkill(stats, random) ]
    /\ UNCHANGED <<stats, warm, log, lookupVars, genVars, ledgerVars, pageVars>>

SelectNext == GetAccuracy \/ GetAverageMs \/ GetWeakestSkill \/ PickSkill

SelectSpec == SelectInit /\ [][SelectNext]_vars

(***************************************************************************)
(* Claims about the reads of a Stats value, under SelectSpec.  Quotients   *)
(* are compared by cross-multiplication.                                   *)
(***************************************************************************)
RECURSIVE SumMs(_)
SumMs(history) ==
    IF history = <<>> THEN 0 ELSE Head(history).ms + SumMs(Tail(history))

IsCorrect(result) == result.correct

CountCorrect(history) == Len(SelectSeq(history, IsCorrect))

\* C16: getAccuracy and getAverageMs return exactly 0 on an empty history;
\* on any other history the accuracy is the number of correct results
\* divided by the length, a value in [0, 1], and the average is the sum of
\* ms divided by the length.
C16_AccuracyAndAverage ==
    (answer # Pending /\ answer.of \in {"getAccuracy", "getAverageMs"}) =>
        LET history == stats[answer.arg].history
        IN  /\ history = <<>> => answer.value = 0
            /\ (history # <<>> /\ answer.of = "getAccuracy") =>
                  /\ answer.value * Len(history)
                         = CountCorrect(history) * UnitsPerOne
                  /\ 0 <= answer.value /\ answer.value <= UnitsPerOne
            /\ (history # <<>> /\ answer.of = "getAverageMs") =>
                  answer.value * Len(history) = SumMs(history) * UnitsPerOne

\* C16 witness: the accuracy of a history of one correct and one incorrect
\* result is one half.
C16_Witness ==
    /\ answer # Pending
    /\ answer.of = "getAccuracy"
    /\ Len(stats[answer.arg].history) = 2
    /\ CountCorrect(stats[answer.arg].history) = 1
    /\ 2 * answer.value = UnitsPerOne

\* the score of a skill as a quotient: 55 / 100 for an empty history, else
\* correct results over length
ScoreNum(history) == IF history = <<>> THEN 55 ELSE CountCorrect(history)

ScoreDen(history) == IF history = <<>> THEN 100 ELSE Len(history)

\* the score of skill s is below that of skill t
ScoreBelow(s, t) ==
    ScoreNum(stats[s].history) * ScoreDen(stats[t].history)
        < ScoreNum(stats[t].history) * ScoreDen(stats[s].history)

\* the position of a skill in the order add, sub, mul, div
SkillIndex(skill) == CHOOSE i \in 1..Len(SKILL_LIST) : SKILL_LIST[i] = skill

\* C17: getWeakestSkill returns the first skill, in the order add, sub,
\* mul, div, whose score is minimal, the score being the accuracy of the
\* history or 0.55 when the history is empty; with all four histories
\* empty it returns "add".
C17_WeakestIsFirstMinimal ==
    (answer # Pending /\ answer.of = "getWeakestSkill") =>
        /\ answer.value \in SkillKey
        /\ \A other \in SkillKey : ~ScoreBelow(other, answer.value)
        /\ \A other \in SkillKey :
              SkillIndex(other) < SkillIndex(answer.value)
                  => ScoreBelow(answer.value, other)
        /\ (\A skill \in SkillKey : stats[skill].history = <<>>)
              => answer.value = "add"

\* C17 witness: "sub" and "div" tie on the lowest score, below "add" and
\* "mul", and "sub" is returned.
C17_Witness ==
    /\ answer # Pending
    /\ answer.of = "getWeakestSkill"
    /\ answer.value = "sub"
    /\ ~ScoreBelow("sub", "div") /\ ~ScoreBelow("div", "sub")
    /\ ScoreBelow("sub", "add")
    /\ ScoreBelow("sub", "mul")

\* the rolls tried for a given outcome of pickSkill
PickGrid == {(i * RollDen) \div PickSteps : i \in 0..(PickSteps - 1)}

\* C18: pickSkill returns one of the four skills, and each of the four is
\* what it returns for some roll, because every weight max(0.15, 1 - score)
\* is at least 0.15, also for a skill with 12 correct results.
C18_EverySkillCanBePicked ==
    /\ (answer # Pending /\ answer.of = "pickSkill") =>
          answer.value \in SkillKey
    /\ answer = Pending =>
          \A skill \in SkillKey :
              /\ Weight(stats[skill].history) * 100 >= 15 * UnitsPerOne
              /\ CountCorrect(stats[skill].history) = MAX_HISTORY
                    => Weight(stats[skill].history) * 100 = 15 * UnitsPerOne
              /\ \E random \in PickGrid : pickSkill(stats, random) = skill

\* C18 witness: "div" has 12 correct results, the other three skills have
\* only incorrect ones, and pickSkill returned "div".
C18_Witness ==
    /\ answer # Pending
    /\ answer.of = "pickSkill"
    /\ answer.value = "div"
    /\ CountCorrect(stats["div"].history) = MAX_HISTORY
    /\ \A skill \in SkillKey \ {"div"} :
          /\ stats[skill].history # <<>>
          /\ CountCorrect(stats[skill].history) = 0

(***************************************************************************)
(* The mistake ledger of the page (src/src/app/page.tsx).                  *)
(*                                                                         *)
(* A value parsed from storage is a JavaScript value: [num |-> n],         *)
(* [str |-> s], [null |-> TRUE], [arr |-> <<values>>] or, for an object,   *)
(* [obj |-> r] with r a record of values; a property an object lacks reads *)
(* as Undefined.                                                           *)
(***************************************************************************)
MAX_MISTAKES == 50

\* the delay of the auto-advance timer and the period of the countdown
ADVANCE_MS == 700

TICK_MS == 1000

NaN == [nan |-> TRUE]

Property(object, name) ==
    IF name \in DOMAIN object THEN object[name] ELSE Undefined

\* typeof value === "string"
IsString(value) == "str" \in DOMAIN value

\* the decimal strings Number() is applied to
DecimalRange == (-1)..60

\* Number(value): a number is itself, null is 0, a string is the number it
\* spells ("" is 0), anything else is NaN
Number(value) ==
    IF "num" \in DOMAIN value THEN value
    ELSE IF "null" \in DOMAIN value THEN [num |-> 0]
    ELSE IF IsString(value)
    THEN IF value.str = "" THEN [num |-> 0]
         ELSE IF \E n \in DecimalRange : ToString(n) = value.str
         THEN [num |-> CHOOSE n \in DecimalRange : ToString(n) = value.str]
         ELSE NaN
    ELSE NaN

\* Number.isFinite of a Number() result
IsFinite(number) == "num" \in DOMAIN number

\* any text passes for a skill key
isSkillKeyAnyText(value) == IsString(value)

isSkillKey(value) == IsString(value) /\ value.str \in SkillKey

\* keyed by the id of the question asked
makeMistakeIdFromQuestionId(q) == q.id

makeMistakeId(q) == q.skill \o ":" \o q.text

\* a slice that keeps every entry
SliceFirstUncapped(items, count) == items

\* items.slice(0, count)
SliceFirst(items, count) == SubSeq(items, 1, Min2(Len(items), count))

\* what the forEach body of normalizeMistakes pushes for one entry
NormalizeEntry(entry, now) ==
    IF "obj" \notin DOMAIN entry THEN <<>>
    ELSE LET item == entry.obj
             text == Property(item, "text")
             skill == Property(item, "skill")
             id == Property(item, "id")
             answerNumber == Number(Property(item, "answer"))
             level == Number(Property(item, "level"))
             misses == Number(Property(item, "misses"))
             lastMissedAt == Number(Property(item, "lastMissedAt"))
         IN  IF ~IsString(text) \/ ~isSkillKey(skill) THEN <<>>
             ELSE IF ~IsFinite(answerNumber) THEN <<>>
             ELSE << [ id |-> IF IsString(id) THEN id.str
                              ELSE skill.str \o ":" \o text.str,
                       text |-> text.str,
                       answer |-> answerNumber.num,
                       skill |-> skill.str,
                       level |-> IF IsFinite(level) THEN level.num ELSE 1,
                       misses |-> IF IsFinite(misses) /\ misses.num > 0
                                  THEN misses.num ELSE 1,
                       lastMissedAt |-> IF IsFinite(lastMissedAt)
                                        THEN lastMissedAt.num ELSE now ] >>

RECURSIVE Cleaned(_, _, _)
\* cleaned after the forEach has visited the first n entries
Cleaned(entries, n, now) ==
    IF n = 0 THEN <<>>
    ELSE Cleaned(entries, n - 1, now) \o NormalizeEntry(entries[n], now)

normalizeMistakes(value, now) ==
    IF "arr" \notin DOMAIN value THEN <<>>
    ELSE SliceFirst(Cleaned(value.arr, Len(value.arr), now), MAX_MISTAKES)

\* items.findIndex((item) => item.id === id)
FindIndex(items, id) ==
    IF \E i \in 1..Len(items) : items[i].id = id
    THEN CHOOSE i \in 1..Len(items) :
            /\ items[i].id = id
            /\ \A j \in 1..(i - 1) : items[j].id # id
    ELSE -1

\* the array after splice(index, 1)
SpliceOut(items, index) ==
    SubSeq(items, 1, index - 1) \o SubSeq(items, index + 1, Len(items))

\* mutant: an entry missed again is updated where it stands
addMistakeEntryInPlace(items, q, now) ==
    LET id == makeMistakeId(q)
        existingIndex == FindIndex(items, id)
    IN  IF existingIndex = -1
        THEN SliceFirst(
                 << [ id |-> id, text |-> q.text,
                      answer |-> q.answer, skill |-> q.skill,
                      level |-> q.level, misses |-> 1,
                      lastMissedAt |-> now ] >> \o items,
                 MAX_MISTAKES)
        ELSE [items EXCEPT ![existingIndex] =
                 [ @ EXCEPT !.answer = q.answer, !.level = q.level,
                            !.misses = @ + 1, !.lastMissedAt = now ]]

addMistakeEntry(items, q, now) ==
    LET id == makeMistakeId(q)
        existingIndex == FindIndex(items, id)
    IN  IF existingIndex = -1
        THEN SliceFirst(
                 << [ id |-> id, text |-> q.text,
                      answer |-> q.answer, skill |-> q.skill,
                      level |-> q.level, misses |-> 1,
                      lastMissedAt |-> now ] >> \o items,
                 MAX_MISTAKES)
        ELSE LET existing == items[existingIndex]
                 next == SpliceOut(items, existingIndex)
             IN  SliceFirst(
                     << [ existing EXCEPT !.answer = q.answer,
                                          !.level = q.level,
                                          !.misses = existing.misses + 1,
                                          !.lastMissedAt = now ] >> \o next,
                     MAX_MISTAKES)

RECURSIVE Filter(_, _, _)
\* the first n items, without those whose id is id
Filter(items, n, id) ==
    IF n = 0 THEN <<>>
    ELSE Filter(items, n - 1, id)
         \o (IF items[n].id # id THEN <<items[n]>> ELSE <<>>)

removeMistakeEntry(items, q) ==
    Filter(items, Len(items), makeMistakeId(q))

buildMistakeQuestion(item, now, salt) ==
    [ id |-> item.id \o "-" \o ToString(now) \o "-" \o salt,
      text |-> item.text, answer |-> item.answer, skill |-> item.skill,
      level |-> item.level ]

(***************************************************************************)
(* The ledger as a state machine: the page starts with an empty ledger,    *)
(* its mount effect replaces it by normalizeMistakes of what storage       *)
(* holds, and results then add and remove entries.                         *)
(***************************************************************************)
\* a stored entry: an object with the given properties
StoredEntry(id, text, result, skill, level, misses, lastMissedAt) ==
    [obj |-> [ id |-> id, text |-> text, answer |-> result, skill |-> skill,
               level |-> level, misses |-> misses,
               lastMissedAt |-> lastMissedAt ]]

\* the values storage may hold under the mistakes key
StoredValues ==
    << \* not an array
       [obj |-> [text |-> [str |-> "0 + 0"]]],
       \* an empty array
       [arr |-> <<>>],
       \* two entries under one id, and an entry without id, level and
       \* lastMissedAt whose answer is a string and whose misses is 0
       [arr |-> << StoredEntry([str |-> "add:0 + 0"], [str |-> "0 + 0"],
                               [num |-> 0], [str |-> "add"], [num |-> 1],
                               [num |-> 2], [num |-> 0]),
                   StoredEntry([str |-> "add:0 + 0"], [str |-> "0 + 0"],
                               [num |-> 0], [str |-> "add"], [num |-> 2],
                               [num |-> 1], [num |-> 0]),
                   [obj |-> [ text |-> [str |-> "2 x 3"],
                              answer |-> [str |-> "6"],
                              skill |-> [str |-> "mul"],
                              misses |-> [num |-> 0] ]] >>],
       \* entries that are dropped, an entry under an id of its own whose
       \* answer is not that of its text, and a regular entry
       [arr |-> << [null |-> TRUE],
                   [num |-> 7],
                   StoredEntry([str |-> "pow:2 ^ 3"], [str |-> "2 ^ 3"],
                               [num |-> 8], [str |-> "pow"], [num |-> 1],
                               [num |-> 1], [num |-> 0]),
                   [obj |-> [ text |-> [num |-> 5], skill |-> [str |-> "add"],
                              answer |-> [num |-> 5] ]],
                   [obj |-> [ text |-> [str |-> "1 + 1"],
                              skill |-> [str |-> "add"],
                              answer |-> [str |-> "two"] ]],
                   StoredEntry([str |-> "legacy-1"], [str |-> "0 + 0"],
                               [num |-> 1], [str |-> "add"], [num |-> 3],
                               [num |-> 4], [num |-> 0]),
                   StoredEntry([str |-> "sub:0 - 0"], [str |-> "0 - 0"],
                               [num |-> 0], [str |-> "sub"], [num |-> 1],
                               [num |-> 1], [num |-> 0]),
                   \* level and misses that are text, misses below zero
                   StoredEntry([str |-> "sub:3 - 1"], [str |-> "3 - 1"],
                               [num |-> 2], [str |-> "sub"], [str |-> "high"],
                               [str |-> "many"], [num |-> 0]),
                   StoredEntry([str |-> "div:6 / 2"], [str |-> "6 / 2"],
                               [null |-> TRUE], [str |-> "div"], [str |-> "2"],
                               [num |-> -1], [num |-> 0]) >>],
       \* entries with equal and with different misses and times of the
       \* last miss (times before the page was opened), two of them equal
       \* in both
       [arr |-> << StoredEntry([str |-> "add:1 + 1"], [str |-> "1 + 1"],
                               [num |-> 2], [str |-> "add"], [num |-> 1],
                               [num |-> 1], [num |-> -2]),
                   StoredEntry([str |-> "mul:2 x 2"], [str |-> "2 x 2"],
                               [num |-> 4], [str |-> "mul"], [num |-> 1],
                               [num |-> 3], [num |-> -5]),
                   StoredEntry([str |-> "sub:5 - 3"], [str |-> "5 - 3"],
                               [num |-> 2], [str |-> "sub"], [num |-> 2],
                               [num |-> 3], [num |-> -1]),
                   StoredEntry([str |-> "div:6 / 3"], [str |-> "6 / 3"],
                               [num |-> 2], [str |-> "div"], [num |-> 1],
                               [num |-> 1], [num |-> -2]),
                   StoredEntry([str |-> "add:2 + 2"], [str |-> "2 + 2"],
                               [num |-> 4], [str |-> "add"], [num |-> 1],
                               [num |-> 2], [num |-> -3]) >>],
       \* one entry more than the ledger holds, each under a key of its own
       [arr |-> [k \in 1..(MAX_MISTAKES + 1) |->
                   StoredEntry([str |-> "mul:" \o ToString(k) \o " x 1"],
                               [str |-> ToString(k) \o " x 1"],
                               [num |-> k], [str |-> "mul"], [num |-> 1],
                               [num |-> 1], [num |-> 0])]] >>

\* the entries of the ledger a practice-mistakes session is followed
\* through: the two at its head and the one at its tail
QueuePositions(items) == {1, 2, Len(items)} \cap (1..Len(items))

\* the questions a result can be about at time now: generated ones, and
\* those a practice-mistakes session builds from the entries of the ledger
LedgerQuestions(items, now) ==
    {generateQuestion(skill, level, Undefined, 0, 0, now, salt) :
        skill \in {"add", "sub"}, level \in 1..2, salt \in {"8f3a"}}
    \cup {buildMistakeQuestion(items[i], now, "c41") : i \in QueuePositions(items)}

\* Date.now() does not go back between two reads
ClockSteps == 0..1

LedgerInit ==
    /\ stats = createDefaultStats
    /\ warm = 1
    /\ log = <<>>
    /\ LookupIdle
    /\ GenIdle
    /\ SelectIdle
    /\ LedgerIdle
    /\ PageIdle

\* the ledger operations made so far, the load not counted
LedgerOps == SelectSeq(ledgerLog, LAMBDA entry : entry.op # "load")

LoadMistakes ==
    /\ ledgerLog = <<>>
    /\ \E k \in 1..Len(StoredValues) :
          /\ mistakes' = normalizeMistakes(StoredValues[k], clock)
          /\ ledgerLog' = << [ op |-> "load", question |-> Pending,
                               now |-> clock, before |-> mistakes,
                               stored |-> k ] >>
    /\ UNCHANGED <<stats, warm, log, lookupVars, genVars, answer, clock, pageVars>>

AddMistake ==
    /\ Len(LedgerOps) < MaxLedgerOps
    /\ \E step \in ClockSteps :
       \E q \in LedgerQuestions(mistakes, clock + step) :
          /\ clock' = clock + step
          /\ mistakes' = addMistakeEntry(mistakes, q, clock')
          /\ ledgerLog' = Append(ledgerLog,
                                 [ op |-> "add", question |-> q,
                                   now |-> clock', before |-> mistakes ])
    /\ UNCHANGED <<stats, warm, log, lookupVars, genVars, answer, pageVars>>

RemoveMistake ==
    /\ Len(LedgerOps) < MaxLedgerOps
    /\ \E step \in ClockSteps :
       \E q \in LedgerQuestions(mistakes, clock + step) :
          /\ clock' = clock + step
          /\ mistakes' = removeMistakeEntry(mistakes, q)
          /\ ledgerLog' = Append(ledgerLog,
                                 [ op |-> "remove", question |-> q,
                                   now |-> clock', before |-> mistakes ])
    /\ UNCHANGED <<stats, warm, log, lookupVars, genVars, answer, pageVars>>

LedgerNext == LoadMistakes \/ AddMistake \/ RemoveMistake

LedgerSpec == LedgerInit /\ [][LedgerNext]_vars

(***************************************************************************)
(* Claims about the mistake ledger, under LedgerSpec.                      *)
(***************************************************************************)
\* the last ledger operation
LastOp == ledgerLog[Len(ledgerLog)]

LastOpIs(op) == ledgerLog # <<>> /\ LastOp.op = op

\* the key of the question of the last operation
LastKey == LastOp.question.skill \o ":" \o LastOp.question.text

\* some entry of items has the key as its id
HasKey(items, key) == \E i \in 1..Len(items) : items[i].id = key

\* the position of the first entry of items with the key
KeyIndex(items, key) ==
    CHOOSE i \in 1..Len(items) :
        /\ items[i].id = key
        /\ \A j \in 1..(i - 1) : items[j].id # key

\* items without the entry at position i
Without(items, i) == SubSeq(items, 1, i - 1) \o SubSeq(items, i + 1, Len(items))

\* C19: addMistakeEntry is keyed by skill + ":" + text.  If no entry has
\* the key, a new entry with misses = 1 is inserted at the head; if one
\* has it, that entry moves to the head with misses one higher and answer,
\* level and lastMissedAt refreshed, and the other entries keep their
\* relative order.  Two adds of the same (skill, text) to an empty ledger
\* give exactly one entry, with misses = 2.
C19_AddIsKeyedBySkillText ==
    LastOpIs("add") =>
        LET q == LastOp.question
            before == LastOp.before
        IN  /\ mistakes # <<>>
            /\ ~HasKey(before, LastKey) =>
                  /\ Head(mistakes)
                         = [ id |-> LastKey, text |-> q.text,
                             answer |-> q.answer, skill |-> q.skill,
                             level |-> q.level, misses |-> 1,
                             lastMissedAt |-> LastOp.now ]
                  /\ Len(before) < MAX_MISTAKES => Tail(mistakes) = before
            /\ HasKey(before, LastKey) =>
                  LET old == before[KeyIndex(before, LastKey)]
                  IN  /\ Head(mistakes)
                             = [ id |-> LastKey, text |-> old.text,
                                 answer |-> q.answer, skill |-> old.skill,
                                 level |-> q.level, misses |-> old.misses + 1,
                                 lastMissedAt |-> LastOp.now ]
                      /\ Tail(mistakes)
                             = Without(before, KeyIndex(before, LastKey))
            /\ ( /\ Len(ledgerLog) >= 2
                 /\ ledgerLog[Len(ledgerLog) - 1].op = "add"
                 /\ ledgerLog[Len(ledgerLog) - 1].before = <<>>
                 /\ ledgerLog[Len(ledgerLog) - 1].question.skill = q.skill
                 /\ ledgerLog[Len(ledgerLog) - 1].question.text = q.text )
               => /\ Len(mistakes) = 1
                  /\ mistakes[1].misses = 2

\* C19 witness: two questions with the same skill and text, but different
\* ids and levels, were added to an empty ledger one after the other, and
\* the ledger holds one entry with misses = 2 at the level of the second.
C19_Witness ==
    /\ Len(ledgerLog) = 2
    /\ ledgerLog[1].op = "add" /\ ledgerLog[2].op = "add"
    /\ ledgerLog[1].before = <<>>
    /\ ledgerLog[1].question.skill = ledgerLog[2].question.skill
    /\ ledgerLog[1].question.text = ledgerLog[2].question.text
    /\ ledgerLog[1].question.id # ledgerLog[2].question.id
    /\ ledgerLog[1].question.level # ledgerLog[2].question.level
    /\ Len(mistakes) = 1
    /\ mistakes[1].misses = 2
    /\ mistakes[1].level = ledgerLog[2].question.level

\* C20: removeMistakeEntry(items, question) removes exactly the entry whose
\* key is question.skill + ":" + question.text and leaves every other entry
\* and their order unchanged: the length decreases by exactly 1 if the key
\* is present and by 0 if it is absent.
C20_RemovesExactlyOne ==
    LastOpIs("remove") =>
        LET before == LastOp.before
        IN  /\ ~HasKey(before, LastKey) => mistakes = before
            /\ HasKey(before, LastKey) =>
                  /\ Len(mistakes) = Len(before) - 1
                  /\ mistakes = Without(before, KeyIndex(before, LastKey))

\* C20, what the code does: every entry whose id is the key is removed, the
\* others stay in their order.
C20_RemovesEveryMatch ==
    LastOpIs("remove") =>
        /\ ~HasKey(mistakes, LastKey)
        /\ mistakes = SelectSeq(LastOp.before, LAMBDA item : item.id # LastKey)

\* C20 witness of the divergence: the ledger was loaded with two entries
\* under one id, and one removal took both.
C20_TwoRemoved ==
    /\ LastOpIs("remove")
    /\ ledgerLog[1].op = "load"
    /\ Len(mistakes) = Len(LastOp.before) - 2

\* C21: the ledger never holds more than MAX_MISTAKES entries, after the
\* load and after every add and remove; an add of a key no entry has, to
\* a ledger of MAX_MISTAKES entries, puts the new entry at the head and
\* drops the entry that was at the tail, the others keeping their places.
C21_LedgerIsCapped ==
    /\ Len(mistakes) <= MAX_MISTAKES
    /\ \A i \in 1..Len(ledgerLog) :
          Len(ledgerLog[i].before) <= MAX_MISTAKES
    /\ (LastOpIs("add") /\ ~HasKey(LastOp.before, LastKey)
                        /\ Len(LastOp.before) = MAX_MISTAKES)
          => /\ Len(mistakes) = MAX_MISTAKES
             /\ mistakes[1].id = LastKey
             /\ mistakes[1].misses = 1
             /\ Tail(mistakes) = SubSeq(LastOp.before, 1, MAX_MISTAKES - 1)
             /\ \A i \in 1..Len(mistakes) :
                   mistakes[i] # LastOp.before[MAX_MISTAKES]

\* a new key was added to a full ledger and the tail entry is gone
C21_Witness ==
    /\ LastOpIs("add")
    /\ ~HasKey(LastOp.before, LastKey)
    /\ Len(LastOp.before) = MAX_MISTAKES
    /\ Len(mistakes) = MAX_MISTAKES
    /\ mistakes[1].id = LastKey
    /\ ~HasKey(mistakes, LastOp.before[MAX_MISTAKES].id)

\* the ledger is the one the load has just produced
JustLoaded == Len(ledgerLog) = 1 /\ LastOp.op = "load"

\* what storage held when the ledger was loaded
LoadedValue == StoredValues[ledgerLog[1].stored]

\* a stored entry normalizeMistakes keeps: an object with text that is a
\* string, a skill that is one of the four keys and an answer that
\* converts to a finite number
Keeps(entry) ==
    /\ "obj" \in DOMAIN entry
    /\ "text" \in DOMAIN entry.obj /\ "str" \in DOMAIN entry.obj.text
    /\ "skill" \in DOMAIN entry.obj /\ "str" \in DOMAIN entry.obj.skill
    /\ entry.obj.skill.str \in SkillKey
    /\ "answer" \in DOMAIN entry.obj
    /\ "num" \in DOMAIN Number(entry.obj.answer)

\* the positions of the stored entries that are kept
KeptPositions(entries) == {i \in 1..Len(entries) : Keeps(entries[i])}

\* the position in storage of the j-th entry kept
KeptPosition(entries, j) ==
    CHOOSE i \in KeptPositions(entries) :
        Cardinality({h \in KeptPositions(entries) : h < i}) = j - 1

\* the stored number under a name, or the default where there is none
NumberOr(object, name, default) ==
    IF name \in DOMAIN object /\ "num" \in DOMAIN Number(object[name])
    THEN Number(object[name]).num ELSE default

\* C25: normalizeMistakes gives [] for a value that is not an array; of an
\* array it keeps, in stored order and up to MAX_MISTAKES of them, exactly
\* the entries that are objects with string text, a known skill key and a
\* finite answer; level is 1 where the stored one is not finite and misses
\* is 1 where the stored one is not finite or is <= 0.
C25_LoadNormalizes ==
    JustLoaded =>
       IF "arr" \notin DOMAIN LoadedValue THEN mistakes = <<>>
       ELSE LET entries == LoadedValue.arr
                kept == KeptPositions(entries)
            IN  /\ Len(mistakes) = Min2(Cardinality(kept), MAX_MISTAKES)
                /\ \A j \in 1..Len(mistakes) :
                      LET item == entries[KeptPosition(entries, j)].obj
                          level == NumberOr(item, "level", 1)
                          misses == NumberOr(item, "misses", 1)
                      IN  /\ mistakes[j].text = item.text.str
                          /\ mistakes[j].skill = item.skill.str
                          /\ mistakes[j].answer = Number(item.answer).num
                          /\ mistakes[j].level = level
                          /\ mistakes[j].misses
                                = IF misses <= 0 THEN 1 ELSE misses

\* a load dropped entries and gave a kept one the default level and misses
C25_Witness ==
    /\ JustLoaded
    /\ "arr" \in DOMAIN LoadedValue
    /\ 0 < Len(mistakes)
    /\ Len(mistakes) < Len(LoadedValue.arr)
    /\ \E j \in 1..Len(mistakes) :
          LET item == LoadedValue.arr[KeptPosition(LoadedValue.arr, j)].obj
          IN  /\ "str" \in DOMAIN item.level
              /\ "num" \notin DOMAIN Number(item.level)
              /\ mistakes[j].level = 1
              /\ mistakes[j].misses = 1

(***************************************************************************)
(* One skill followed over a longer run of results: every call of a        *)
(* behaviour is for the skill of its first call.                           *)
(***************************************************************************)
StreakCall(skill, correct, ms) ==
    /\ Len(log) < MaxStreakCalls
    /\ log # <<>> => skill = log[1].skill
    /\ stats' = updateStats(stats, skill, correct, ms)
    /\ log' = Append(log, [ skill |-> skill, correct |-> correct, ms |-> ms,
                            before |-> Counters(stats[skill]),
                            after |-> Counters(stats'[skill]) ])
    /\ UNCHANGED <<warm, lookupVars, genVars, answer, ledgerVars, pageVars>>

StreakNext ==
    \E skill \in SkillKey, correct \in BOOLEAN, ms \in MsValues :
        StreakCall(skill, correct, ms)

StreakSpec == StatsInit /\ [][StreakNext]_vars

\* C29: in every SkillStats state reached from createDefaultStats() by
\* updateStats calls, streak and mistakeStreak are never both nonzero: the
\* state after a correct result has mistakeStreak = 0 and the state after
\* an incorrect result has streak = 0.
C29_StreaksExcludeEachOther ==
    /\ \A skill \in SkillKey :
          stats[skill].streak = 0 \/ stats[skill].mistakeStreak = 0
    /\ \A i \in DOMAIN log :
          /\ Pre(i).streak = 0 \/ Pre(i).mistakeStreak = 0
          /\ log[i].correct => Post(i).mistakeStreak = 0
          /\ ~log[i].correct => Post(i).streak = 0

\* a correct result after a miss cleared a nonzero mistakeStreak, and an
\* incorrect result later cleared the nonzero streak
C29_Witness ==
    \E i, j \in DOMAIN log :
        /\ i < j
        /\ log[i].correct /\ Pre(i).mistakeStreak > 0
        /\ Post(i).streak > 0 /\ Post(i).mistakeStreak = 0
        /\ ~log[j].correct /\ Pre(j).streak > 0
        /\ Post(j).streak = 0 /\ Post(j).mistakeStreak > 0

\* the i-th logged call was a correct result slower than the target time
Slow(i) == log[i].correct /\ log[i].ms > getTargetMs(Pre(i).level)

\* C30: a correct result with ms > getTargetMs(level) leaves the level
\* unchanged and raises streak by 1, so streak grows past 3 over slow
\* results; a correct result within target time that follows such a run
\* raises the level (below the top level), the slow results counting
\* towards the streak of 3.
C30_SlowCorrectKeepsStreak ==
    \A i \in DOMAIN log :
        /\ Slow(i) => /\ Post(i).level = Pre(i).level
                      /\ Post(i).streak = Pre(i).streak + 1
                      /\ Post(i).mistakeStreak = 0
        /\ (/\ i > 2
            /\ Slow(i - 2) /\ Slow(i - 1)
            /\ log[i].correct /\ ~Slow(i)
            /\ Pre(i).level < Len(LEVELS[log[i].skill]))
              => /\ Post(i).level = Pre(i).level + 1
                 /\ Post(i).streak = 0

\* four slow correct results took streak past 3 at an unchanged level, and
\* the single correct result within target time that followed raised it
C30_Witness ==
    /\ Len(log) = 5
    /\ \A i \in 1..4 : Slow(i)
    /\ Pre(5).streak = 4
    /\ Pre(5).level = Pre(1).level
    /\ log[5].correct /\ ~Slow(5)
    /\ Post(5).level = Pre(5).level + 1

(***************************************************************************)
(* The page driver (src/src/app/page.tsx, Home).  stats is statsRef.current *)
(* and the stats state, which the handlers keep equal; mistakes is the     *)
(* ledger state, question the question state (Pending for null) and clock  *)
(* what Date.now() returns.                                                *)
(***************************************************************************)
\* a Stats blob whose levels leave the table and whose history is longer
\* than MAX_HISTORY
OverStats ==
    [createDefaultStats EXCEPT
        !["add"].level = MAX_LEVEL + 1,
        !["sub"].level = 0,
        !["mul"].history = [i \in 1..(MAX_HISTORY + 1) |->
                               [correct |-> TRUE, ms |-> WarmMs]]]

\* a Stats blob with one skill key only
PartStats == [skill \in {"add"} |-> createDefaultStats[skill]]

\* what storage may hold under STORAGE_KEY, parsed: nothing, a state the
\* page saved, and states it did not save
StoredStates ==
    << [none |-> TRUE],
       [stats |-> WarmStats(3), mode |-> "add"],
       [stats |-> OverStats, mode |-> "mix"],
       [stats |-> PartStats] >>

\* what storage may hold under SETTINGS_KEY, parsed: nothing, settings the
\* page saved, and settings it did not save
StoredSettings ==
    << [none |-> TRUE],
       [ questionCount |-> [num |-> 20], timeLimitSeconds |-> [num |-> 30],
         negativeLevel |-> [num |-> 2] ],
       [ questionCount |-> [num |-> 3], timeLimitSeconds |-> Null,
         negativeLevel |-> [num |-> MAX_LEVEL + 1] ],
       [ questionCount |-> [num |-> -1], timeLimitSeconds |-> [num |-> -5],
         negativeLevel |-> [num |-> -4] ] >>

\* parsed.name ?? prev
StoredOr(parsed, name, prev) ==
    IF Property(parsed, name) = Undefined \/ Property(parsed, name) = Null
    THEN prev
    ELSE Property(parsed, name).num

\* the updater the mount effect passes to setSettings
LoadedSettings(prev, parsed) ==
    LET nextNegative == StoredOr(parsed, "negativeLevel", prev.negativeLevel)
    IN  [ questionCount |-> StoredOr(parsed, "questionCount", prev.questionCount),
          timeLimitSeconds |->
              StoredOr(parsed, "timeLimitSeconds", prev.timeLimitSeconds),
          negativeLevel |-> Min2(Max2(nextNegative, 0), MAX_LEVEL) ]

\* the stored ledgers the page is followed from: the arrays (0 stands for
\* no item under MISTAKES_KEY)
MountedLedgers ==
    {k \in 0..Len(StoredValues) : k > 0 => "arr" \in DOMAIN StoredValues[k]}

\* the state a handler starts from
Snapshot ==
    [ page |-> page, stats |-> stats, mistakes |-> mistakes,
      question |-> question, clock |-> clock ]

\* the number of handlers that ran since the component was constructed
PageSteps == IF pageLast = Pending THEN 0 ELSE pageLast.step

\* the record of a handler that runs now
Ran(op, arg) ==
    [op |-> op, arg |-> arg, before |-> Snapshot, step |-> PageSteps + 1]

\* the record of a timer's callback that runs now: it is no handler the
\* user starts, and is not counted among the steps
Fired(op) == [Ran(op, Null) EXCEPT !.step = PageSteps]

PageInit ==
    /\ stats = createDefaultStats
    /\ warm = 1
    /\ log = <<>>
    /\ LookupIdle
    /\ GenIdle
    /\ SelectIdle
    /\ LedgerIdle
    /\ PageIdle

\* the mount effect: the saved stats and mode, the saved settings and the
\* saved ledger replace the constructed ones
Mount ==
    /\ ~page.ready
    /\ \E i \in 1..Len(StoredStates), j \in 1..Len(StoredSettings),
          k \in MountedLedgers :
          LET saved == StoredStates[i]
              parsed == StoredSettings[j]
          IN  /\ stats' = IF "stats" \in DOMAIN saved THEN saved.stats ELSE stats
              /\ page' = [page EXCEPT
                    !.mode = IF "mode" \in DOMAIN saved THEN saved.mode ELSE @,
                    !.settings = IF "none" \in DOMAIN parsed THEN @
                                 ELSE LoadedSettings(@, parsed),
                    !.timeLeft =
                        IF /\ "timeLimitSeconds" \in DOMAIN parsed
                           /\ "num" \in DOMAIN parsed.timeLimitSeconds
                        THEN parsed.timeLimitSeconds.num ELSE @,
                    !.ready = TRUE]
              /\ mistakes' = IF k = 0 THEN mistakes
                             ELSE normalizeMistakes(StoredValues[k], clock)
              /\ pageLast' = Ran("mount", [state |-> i, settings |-> j,
                                           mistakes |-> k])
    /\ UNCHANGED <<warm, log, lookupVars, genVars, answer, clock, ledgerLog>>

\* the menu's Settings button
OpenSettings ==
    /\ page.ready
    /\ page.screen = "menu"
    /\ PageSteps < MaxSettingsSteps
    /\ page' = [page EXCEPT !.screen = "settings"]
    /\ pageLast' = Ran("openSettings", Null)
    /\ UNCHANGED <<stats, warm, log, lookupVars, genVars, answer, ledgerVars>>

AdjustQuestionCount ==
    /\ page.screen = "settings"
    /\ PageSteps < MaxSettingsSteps
    /\ \E delta \in {-1, 1} :
          /\ page' = [page EXCEPT !.settings.questionCount =
                                      Min2(Max2(@ + delta, 5), 50)]
          /\ pageLast' = Ran("adjustQuestionCount", delta)
    /\ UNCHANGED <<stats, warm, log, lookupVars, genVars, answer, ledgerVars>>

AdjustTimeLimit ==
    /\ page.screen = "settings"
    /\ PageSteps < MaxSettingsSteps
    /\ \E delta \in {-5, 5} :
          /\ page' = [page EXCEPT !.settings.timeLimitSeconds =
                                      Min2(Max2(@ + delta, 5), 60)]
          /\ pageLast' = Ran("adjustTimeLimit", delta)
    /\ UNCHANGED <<stats, warm, log, lookupVars, genVars, answer, ledgerVars>>

AdjustNegativeLevel ==
    /\ page.screen = "settings"
    /\ PageSteps < MaxSettingsSteps
    /\ \E delta \in {-1, 1} :
          /\ page' = [page EXCEPT !.settings.negativeLevel =
                                      Min2(Max2(@ + delta, 0), MAX_LEVEL)]
          /\ pageLast' = Ran("adjustNegativeLevel", delta)
    /\ UNCHANGED <<stats, warm, log, lookupVars, genVars, answer, ledgerVars>>

\* resetStats, the button of the settings screen
ResetStats ==
    /\ page.screen = "settings"
    /\ PageSteps < MaxSettingsSteps
    /\ stats' = createDefaultStats
    /\ pageLast' = Ran("resetStats", Null)
    /\ UNCHANGED <<warm, log, lookupVars, genVars, answer, ledgerVars, page>>

SettingsNext ==
    \/ Mount
    \/ OpenSettings
    \/ AdjustQuestionCount
    \/ AdjustTimeLimit
    \/ AdjustNegativeLevel
    \/ ResetStats

SettingsSpec == PageInit /\ [][SettingsNext]_vars

(***************************************************************************)
(* Claims about the mount effect and the settings, under SettingsSpec.     *)
(***************************************************************************)
\* the last handler that ran was op
LastRan(op) == pageLast # Pending /\ pageLast.op = op

\* st has the four skill keys, every level inside its table and no
\* history longer than MAX_HISTORY
ValidStats(st) ==
    /\ DOMAIN st = SkillKey
    /\ \A skill \in SkillKey :
          /\ skill \in DOMAIN st
          /\ st[skill].level \in 1..Len(LEVELS[skill])
          /\ Len(st[skill].history) <= MAX_HISTORY

\* C24 as stated: the Stats in use once the mount effect has run has the
\* four skill keys, every level inside its table and no history longer
\* than MAX_HISTORY, whatever storage held.
C24_LoadedStatsAreValid == page.ready => ValidStats(stats)

\* C24, what the page does: the mount effect puts the stored stats in use
\* as they are (the constructed ones where storage holds none), and the
\* settings handlers leave them alone but for resetStats.
C24_LoadedStatsAsStored ==
    /\ LastRan("mount") =>
          LET saved == StoredStates[pageLast.arg.state]
          IN  stats = IF "stats" \in DOMAIN saved THEN saved.stats
                      ELSE createDefaultStats
    /\ LastRan("resetStats") => stats = createDefaultStats
    /\ (pageLast # Pending /\ pageLast.op \notin {"mount", "resetStats"})
          => stats = pageLast.before.stats

\* stats that are not valid are in use after the mount effect
C24_InvalidInUse ==
    /\ LastRan("mount")
    /\ page.ready
    /\ ~ValidStats(stats)
    /\ stats = StoredStates[pageLast.arg.state].stats

\* the stored values of a settings field that are numbers
StoredNumbers(name) ==
    {StoredSettings[j][name].num :
        j \in {h \in 1..Len(StoredSettings) :
                  /\ name \in DOMAIN StoredSettings[h]
                  /\ "num" \in DOMAIN StoredSettings[h][name]}}

\* C26 as stated: in every state of the page questionCount is in [5, 50],
\* timeLimitSeconds in [5, 60] and negativeLevel in [0, MAX_LEVEL].
C26_SettingsInRange ==
    /\ page.settings.questionCount \in 5..50
    /\ page.settings.timeLimitSeconds \in 5..60
    /\ page.settings.negativeLevel \in 0..MAX_LEVEL

\* C26, what the page does: negativeLevel is in [0, MAX_LEVEL] in every
\* state; questionCount is in [5, 50] and timeLimitSeconds in [5, 60]
\* after their adjust handler has run, and before that they are in range
\* or the value storage held.
C26_SettingsInRangeOrStored ==
    /\ page.settings.negativeLevel \in 0..MAX_LEVEL
    /\ \/ page.settings.questionCount \in 5..50
       \/ page.settings.questionCount \in StoredNumbers("questionCount")
    /\ \/ page.settings.timeLimitSeconds \in 5..60
       \/ page.settings.timeLimitSeconds \in StoredNumbers("timeLimitSeconds")
    /\ LastRan("adjustQuestionCount") =>
          /\ page.settings.questionCount \in 5..50
          /\ page.settings.questionCount =
                clamp(pageLast.before.page.settings.questionCount
                          + pageLast.arg, 5, 50)
    /\ LastRan("adjustTimeLimit") =>
          /\ page.settings.timeLimitSeconds \in 5..60
          /\ page.settings.timeLimitSeconds =
                clamp(pageLast.before.page.settings.timeLimitSeconds
                          + pageLast.arg, 5, 60)
    /\ LastRan("mount") =>
          LET parsed == StoredSettings[pageLast.arg.settings]
          IN  /\ ("questionCount" \in DOMAIN parsed
                    /\ "num" \in DOMAIN parsed.questionCount)
                    => page.settings.questionCount = parsed.questionCount.num
              /\ ("timeLimitSeconds" \in DOMAIN parsed
                    /\ "num" \in DOMAIN parsed.timeLimitSeconds)
                    => page.settings.timeLimitSeconds
                          = parsed.timeLimitSeconds.num

\* stored settings outside the ranges are in use, an adjust handler of
\* another field having run since the mount
C26_OutOfRangeInUse ==
    /\ LastRan("adjustNegativeLevel")
    /\ page.settings.questionCount < 5
    /\ page.settings.timeLimitSeconds < 5

(***************************************************************************)
(* Sessions: the handlers of the menu, the drill and the summary, the      *)
(* countdown and the auto-advance timer.                                   *)
(***************************************************************************)
DigitChars == <<"0", "1", "2", "3", "4", "5", "6", "7", "8", "9">>

RECURSIVE Digits(_)
\* the decimal digits of n >= 0, as characters
Digits(n) ==
    IF n < 10 THEN <<DigitChars[n + 1]>>
    ELSE Digits(n \div 10) \o <<DigitChars[(n % 10) + 1]>>

\* String(n), as characters
NumberChars(n) == IF n < 0 THEN <<"-">> \o Digits(-n) ELSE Digits(n)

\* the number of digits of the largest finite double
DoubleDigits == 309

\* a digit string too long for a finite double
OverLong == [i \in 1..(DoubleDigits + 1) |-> "9"]

RECURSIVE TrimStart(_)
TrimStart(chars) ==
    IF chars # <<>> /\ Head(chars) = " " THEN TrimStart(Tail(chars)) ELSE chars

RECURSIVE TrimEnd(_)
TrimEnd(chars) ==
    IF chars # <<>> /\ chars[Len(chars)] = " "
    THEN TrimEnd(SubSeq(chars, 1, Len(chars) - 1)) ELSE chars

\* text.trim()
Trim(chars) == TrimEnd(TrimStart(chars))

IsDigit(char) == \E d \in 1..Len(DigitChars) : DigitChars[d] = char

DigitValue(char) == (CHOOSE d \in 1..Len(DigitChars) : DigitChars[d] = char) - 1

RECURSIVE StripZeros(_)
StripZeros(chars) ==
    IF Len(chars) > 1 /\ Head(chars) = "0" THEN StripZeros(Tail(chars)) ELSE chars

RECURSIVE DigitsValue(_)
DigitsValue(chars) ==
    IF chars = <<>> THEN 0
    ELSE 10 * DigitsValue(SubSeq(chars, 1, Len(chars) - 1))
            + DigitValue(chars[Len(chars)])

\* the digits TLC's integers hold
ExactDigits == 9

\* Number(text) for the texts the answer box holds (digits after an
\* optional "-"): the number, a finite number beyond the integers of the
\* model, Infinity for a number beyond the doubles, NaN for anything else
ParseNumber(chars) ==
    LET negative == chars # <<>> /\ Head(chars) = "-"
        body == IF negative THEN Tail(chars) ELSE chars
        digits == StripZeros(body)
    IN  IF chars = <<>> THEN [num |-> 0]
        ELSE IF body = <<>> \/ \E i \in 1..Len(body) : ~IsDigit(body[i])
        THEN NaN
        ELSE IF Len(digits) > DoubleDigits THEN [infinite |-> TRUE]
        ELSE IF Len(digits) > ExactDigits THEN [large |-> TRUE]
        ELSE [num |-> IF negative THEN -DigitsValue(digits)
                      ELSE DigitsValue(digits)]

\* items.slice(0, end) for an integer end
SliceTo(items, end) ==
    SubSeq(items, 1, IF end < 0 THEN Max2(Len(items) + end, 0)
                     ELSE Min2(end, Len(items)))

\* the comparator with the oldest miss first among equal misses
MissedMoreOldestFirst(a, b) ==
    \/ a.misses > b.misses
    \/ a.misses = b.misses /\ a.lastMissedAt < b.lastMissedAt

\* the comparator of startMistakeSession puts a before b
MissedMore(a, b) ==
    \/ a.misses > b.misses
    \/ a.misses = b.misses /\ a.lastMissedAt > b.lastMissedAt

RECURSIVE InsertSorted(_, _)
\* item put into a sorted list behind every entry it does not go before
InsertSorted(sorted, item) ==
    IF sorted = <<>> THEN <<item>>
    ELSE IF MissedMore(item, Head(sorted)) THEN <<item>> \o sorted
    ELSE <<Head(sorted)>> \o InsertSorted(Tail(sorted), item)

RECURSIVE SortedUpTo(_, _)
\* [...items].sort(comparator), a stable sort, of the first n entries
SortedUpTo(items, n) ==
    IF n = 0 THEN <<>> ELSE InsertSorted(SortedUpTo(items, n - 1), items[n])

SortMistakes(items) == SortedUpTo(items, Len(items))

\* the queue startMistakeSession builds
MistakeQueue(items, settings) ==
    SliceTo(SortMistakes(items), settings.questionCount)

\* the roll the questions of a session are drawn with: the highest
PageRolls == {r \in Rolls : \A other \in Rolls : r >= other}

\* minus can be typed into the answer box
AllowNegativeAnswer(q, settings) ==
    /\ q # Pending
    /\ q.skill = "sub"
    /\ settings.negativeLevel > 0
    /\ q.level >= settings.negativeLevel

\* the texts the answer box is followed with: the answer, a wrong number,
\* nothing, a number beyond the doubles and, where it can be typed, a
\* lone minus
TypedTexts(q, settings) ==
    {NumberChars(q.answer), NumberChars(q.answer + 1), <<>>, OverLong}
    \cup (IF AllowNegativeAnswer(q, settings) THEN {<<"-">>} ELSE {})

\* the auto-advance effect arms its timer for this feedback
Arms(feedback) == feedback # Null /\ (feedback.correct \/ feedback.timedOut)

\* a dependency of the auto-advance effect (feedback, or one of those of
\* handleNext) differs between two renders
AdvanceDepsChanged(p, q, oldPage, oldQuestion) ==
    \/ p.feedback # oldPage.feedback
    \/ p.answered # oldPage.answered
    \/ q # oldQuestion
    \/ p.questionIndex # oldPage.questionIndex
    \/ p.mistakeQueue # oldPage.mistakeQueue
    \/ p.sessionKind # oldPage.sessionKind
    \/ p.settings # oldPage.settings

\* mutant: a clearAdvanceTimer that leaves the timeout pending
clearAdvanceTimerKept(p) == p

\* clearAdvanceTimer: window.clearTimeout on the pending timeout, if any,
\* and null in the ref
clearAdvanceTimer(p) == [p EXCEPT !.advanceTimer = Null]

\* the effect without its timer
RenderedNoTimer(p, q, now) == [p EXCEPT !.advanceTimer = Null]

\* the page after the render that follows a handler: the auto-advance
\* effect runs again when a dependency changed, its cleanup clearing the
\* timer it had armed and its body arming one 700 ms ahead
Rendered(p, q, now) ==
    IF ~AdvanceDepsChanged(p, q, page, question) THEN p
    ELSE IF Arms(p.feedback)
    THEN [p EXCEPT !.advanceTimer = [due |-> now + ADVANCE_MS]]
    ELSE IF Arms(page.feedback) THEN clearAdvanceTimer(p)
    ELSE p

\* the state updates of beginQuestion (setQuestion apart)
BeginQuestion(p, now) ==
    [p EXCEPT !.answer = <<>>, !.error = Null, !.feedback = Null,
              !.answered = FALSE, !.showTip = FALSE, !.startTime = now,
              !.timeLeft = p.settings.timeLimitSeconds]

\* createQuestion can read the stats it needs: it throws on a skill the
\* stats have no entry for
CanCreate(selectedMode, st) ==
    IF selectedMode = "mix" THEN \A skill \in SkillKey : skill \in DOMAIN st
    ELSE selectedMode \in DOMAIN st

\* the body of startSession(nextMode), run by the handler op.  The skill
\* createQuestion picks is bound once and handed on as the mode, which
\* createQuestion then returns as the skill: the question is the one of
\* createQuestion(nextMode, ...), the pick is evaluated a single time
DoStartSession(nextMode, op) ==
    /\ CanCreate(nextMode, stats)
    /\ \E roll \in PageRolls :
        \E skill \in {CreateSkill(nextMode, stats, roll)} :
          LET created == createQuestion(skill, stats,
                             page.settings.negativeLevel, roll, roll, roll,
                             clock, "8f3a")
              started == [clearAdvanceTimer(page) EXCEPT
                                      !.sessionKind = "standard",
                                      !.mistakeQueue = <<>>,
                                      !.mode = nextMode,
                                      !.session = [correct |-> 0, wrong |-> 0],
                                      !.questionIndex = 1,
                                      !.screen = "drill"]
          IN  /\ question' = created
              /\ page' = Rendered(BeginQuestion(started, clock), created, clock)
    /\ pageLast' = Ran(op, nextMode)
    /\ UNCHANGED <<stats, warm, log, lookupVars, request, answer, ledgerVars>>

\* the body of startMistakeSession, run by the handler op
DoStartMistakeSession(op) ==
    /\ LET queue == MistakeQueue(mistakes, page.settings)
           started == [clearAdvanceTimer(page) EXCEPT
                                   !.sessionKind = "mistakes",
                                   !.mistakeQueue = queue,
                                   !.session = [correct |-> 0, wrong |-> 0],
                                   !.questionIndex = 1,
                                   !.screen = "drill"]
           built == buildMistakeQuestion(queue[1], clock, "c41")
       IN  IF mistakes = <<>> THEN UNCHANGED <<page, question>>
           ELSE IF queue = <<>>
           THEN /\ page' = clearAdvanceTimer(page)
                /\ UNCHANGED question
           ELSE /\ question' = built
                /\ page' = Rendered(BeginQuestion(started, clock), built, clock)
    /\ pageLast' = Ran(op, Null)
    /\ UNCHANGED <<stats, warm, log, lookupVars, request, answer, ledgerVars>>

\* a mode button of the menu
StartSession ==
    /\ page.ready
    /\ page.screen = "menu"
    /\ PageSteps < MaxPageSteps
    /\ \E nextMode \in Mode : DoStartSession(nextMode, "startSession")

\* the Practice mistakes button of the menu, disabled on an empty ledger
StartMistakeSession ==
    /\ page.ready
    /\ page.screen = "menu"
    /\ mistakes # <<>>
    /\ PageSteps < MaxPageSteps
    /\ DoStartMistakeSession("startMistakeSession")

\* handlePracticeAgain, the button of the summary
PracticeAgain ==
    /\ page.screen = "summary"
    /\ PageSteps < MaxPageSteps
    /\ IF page.sessionKind = "mistakes"
       THEN DoStartMistakeSession("practiceAgain")
       ELSE DoStartSession(page.mode, "practiceAgain")

\* goToMenu, the button of every screen but the menu and the browser's
\* back (the popstate listener calls it unless the menu is shown)
GoToMenu ==
    /\ page.screen # "menu"
    /\ PageSteps < MaxPageSteps
    /\ question' = Pending
    /\ page' = Rendered([clearAdvanceTimer(page) EXCEPT
                                     !.sessionKind = "standard",
                                     !.mistakeQueue = <<>>,
                                     !.screen = "menu",
                                     !.feedback = Null,
                                     !.error = Null,
                                     !.answer = <<>>,
                                     !.answered = FALSE,
                                     !.showTip = FALSE],
                        Pending, clock)
    /\ pageLast' = Ran("goToMenu", Null)
    /\ UNCHANGED <<stats, warm, log, lookupVars, request, answer, ledgerVars>>

\* the ledger after applyResult, were only standard sessions to record misses
ResultMistakesStandardOnly(items, q, correct, sessionKind, now) ==
    IF sessionKind = "mistakes"
    THEN IF correct THEN removeMistakeEntry(items, q) ELSE items
    ELSE IF ~correct THEN addMistakeEntry(items, q, now) ELSE items

\* mutant: a correct answer takes the entry out in any session
ResultMistakesAnySession(items, q, correct, sessionKind, now) ==
    IF ~correct THEN addMistakeEntry(items, q, now)
    ELSE removeMistakeEntry(items, q)

\* the ledger after applyResult
ResultMistakes(items, q, correct, sessionKind, now) ==
    IF ~correct THEN addMistakeEntry(items, q, now)
    ELSE IF sessionKind = "mistakes" THEN removeMistakeEntry(items, q)
    ELSE items

\* the state updates of applyResult(correct, elapsed, timedOut) on page p
\* (setStats and setMistakes apart)
ApplyResult(p, q, correct, elapsed, timedOut) ==
    [p EXCEPT
        !.feedback = [ correct |-> correct, expected |-> q.answer,
                       ms |-> elapsed, skill |-> q.skill, level |-> q.level,
                       timedOut |-> timedOut ],
        !.session = [ correct |-> @.correct + (IF correct THEN 1 ELSE 0),
                      wrong |-> @.wrong + (IF correct THEN 0 ELSE 1) ],
        !.showTip = IF correct THEN @ ELSE TRUE,
        !.error = Null,
        !.answered = TRUE]

\* handleSubmit taking any text for an answer
SubmitErrorNone(cleaned) == Null

\* handleSubmit on a text that is no answer: the message it sets
SubmitError(cleaned) ==
    IF cleaned = <<>> THEN [str |-> "Type an answer."]
    ELSE IF cleaned = <<"-">> THEN [str |-> "Type a number."]
    ELSE IF "num" \notin DOMAIN ParseNumber(cleaned)
              /\ "large" \notin DOMAIN ParseNumber(cleaned)
    THEN [str |-> "Numbers only for now."]
    ELSE Null

\* the time an answer takes on the page, from beginQuestion to the
\* submit: the shortest of MsValues
PageMs == {ms \in MsValues : \A other \in MsValues : ms <= other}

\* mutant: a handler that returns only when there is no question
AnswerableAgain(p, q) == q # Pending

\* the first lines of handleSubmit and handleTimeout passed: there is a
\* question and it is not answered
Answerable(p, q) == q # Pending /\ ~p.answered

\* handleSubmit past its first lines, with the text typed into the answer
\* box before; the answer took the time drawn, or the time that has
\* passed on the countdown if that is longer
DoSubmit ==
    /\ \E typed \in TypedTexts(question, page.settings) :
          LET cleaned == Trim(typed)
              numeric == ParseNumber(cleaned)
              correct == numeric = [num |-> question.answer]
              held == [page EXCEPT !.answer = typed, !.error = Null]
          IN  IF SubmitError(cleaned) # Null
              THEN /\ page' = Rendered([held EXCEPT !.error = SubmitError(cleaned)],
                                       question, clock)
                   /\ pageLast' = Ran("submit", typed)
                   /\ UNCHANGED <<stats, mistakes, clock>>
              ELSE \E elapsed \in {Max2(ms, clock - page.startTime) :
                                       ms \in PageMs} :
                      /\ question.skill \in DOMAIN stats
                      /\ clock' = page.startTime + elapsed
                      /\ stats' = updateStats(stats, question.skill, correct, elapsed)
                      /\ mistakes' = ResultMistakes(mistakes, question, correct,
                                                    page.sessionKind, clock')
                      /\ page' = Rendered(
                            ApplyResult([held EXCEPT !.advanceTimer = Null],
                                        question, correct, elapsed, FALSE),
                            question, clock')
                      /\ pageLast' = Ran("submit", typed)
    /\ UNCHANGED <<warm, log, lookupVars, genVars, answer, ledgerLog>>

\* the Check button and the Enter key, enabled until the question is
\* answered
Submit ==
    /\ page.screen = "drill"
    /\ Answerable(page, question)
    /\ PageSteps < MaxPageSteps
    /\ DoSubmit

\* handleTimeout past its first lines
DoTimeout ==
    /\ question.skill \in DOMAIN stats
    /\ LET elapsed == Max2(page.settings.timeLimitSeconds, 1) * TICK_MS
       IN  /\ clock' = page.startTime + elapsed
           /\ stats' = updateStats(stats, question.skill, FALSE, elapsed)
           /\ mistakes' = ResultMistakes(mistakes, question, FALSE,
                                         page.sessionKind, clock')
           /\ page' = Rendered(
                 ApplyResult([page EXCEPT !.timeLeft = 0], question, FALSE,
                             elapsed, TRUE),
                 question, clock')
    /\ pageLast' = Ran("timeout", Null)
    /\ UNCHANGED <<warm, log, lookupVars, genVars, answer, ledgerLog>>

\* the countdown running out: the ticks left pass and the last one calls
\* handleTimeout
Timeout ==
    /\ page.screen = "drill"
    /\ Answerable(page, question)
    /\ PageSteps < MaxPageSteps
    /\ DoTimeout

\* the body of handleNext at time now, run by op on the page held (the
\* page as the caller left it)
DoNext(ran, held, now) ==
    LET totalQuestions == IF held.sessionKind = "mistakes"
                          THEN Len(held.mistakeQueue)
                          ELSE held.settings.questionCount
        nextIndex == held.questionIndex + 1
        cleared == clearAdvanceTimer(held)
        summary == [cleared EXCEPT !.screen = "summary", !.answered = FALSE]
        moved == [cleared EXCEPT !.questionIndex = nextIndex]
    IN  /\ pageLast' = ran
        /\ UNCHANGED <<stats, mistakes>>
        /\ IF question = Pending \/ ~held.answered
           THEN /\ page' = Rendered(held, question, now)
                /\ UNCHANGED question
           ELSE IF nextIndex > totalQuestions
           THEN /\ question' = Pending
                /\ page' = Rendered(summary, Pending, now)
           ELSE IF held.sessionKind = "mistakes"
           THEN \E built \in {buildMistakeQuestion(held.mistakeQueue[nextIndex],
                                                    now, "c41")} :
                    /\ question' = built
                    /\ page' = Rendered(BeginQuestion(moved, now), built, now)
           ELSE /\ CanCreate(held.mode, stats)
                /\ \E roll \in PageRolls :
                    \E skill \in {CreateSkill(held.mode, stats, roll)} :
                    \E created \in {createQuestion(skill, stats,
                                         held.settings.negativeLevel, roll, roll,
                                         roll, now, "8f3a")} :
                          /\ question' = created
                          /\ page' = Rendered(BeginQuestion(moved, now),
                                              created, now)

\* the Next button, enabled once the question is answered
Next ==
    /\ page.screen = "drill"
    /\ page.answered
    /\ PageSteps < MaxPageSteps
    /\ DoNext(Ran("next", Null), page, clock)
    /\ UNCHANGED <<warm, log, lookupVars, request, answer, clock, ledgerLog>>

\* the auto-advance timer fires, ADVANCE_MS after it was armed; the
\* browser runs a pending timer whatever the user does
AdvanceFires ==
    /\ page.advanceTimer # Null
    /\ clock' = Max2(clock, page.advanceTimer.due)
    /\ DoNext(Fired("advance"), [page EXCEPT !.advanceTimer = Null], clock')
    /\ UNCHANGED <<warm, log, lookupVars, request, answer, ledgerLog>>

PageNext ==
    \/ Mount
    \/ StartSession
    \/ StartMistakeSession
    \/ PracticeAgain
    \/ GoToMenu
    \/ Submit
    \/ Timeout
    \/ Next
    \/ AdvanceFires

PageSpec == PageInit /\ [][PageNext]_vars

\* the same with the timer of the browser: a pending timeout is run
PageTimerSpec == PageSpec /\ WF_vars(AdvanceFires)

(***************************************************************************)
(* Claims about the sessions of the page, under PageSpec.                  *)
(***************************************************************************)
\* the last handler that ran was startMistakeSession, from the menu or
\* from the summary of a practice-mistakes session
StartedMistakes ==
    \/ LastRan("startMistakeSession")
    \/ LastRan("practiceAgain") /\ pageLast.before.page.sessionKind = "mistakes"

\* the number of entries of items the sort puts before the i-th: those
\* with more misses, those with equal misses missed later, and those
\* equal in both that stand before it
Rank(items, i) ==
    Cardinality({k \in 1..Len(items) :
        \/ items[k].misses > items[i].misses
        \/ /\ items[k].misses = items[i].misses
           /\ items[k].lastMissedAt > items[i].lastMissedAt
        \/ /\ items[k].misses = items[i].misses
           /\ items[k].lastMissedAt = items[i].lastMissedAt
           /\ k < i})

\* queue holds the first n entries of items in sorted order
FirstSorted(queue, items, n) ==
    /\ Len(queue) = n
    /\ \A i \in 1..Len(items) :
          Rank(items, i) < n => queue[Rank(items, i) + 1] = items[i]

\* the question on screen is built from the entry of the queue the
\* session stands at
PresentsQueue ==
    (page.sessionKind = "mistakes" /\ question # Pending)
       => /\ page.screen = "drill"
          /\ page.questionIndex \in 1..Len(page.mistakeQueue)
          /\ LET item == page.mistakeQueue[page.questionIndex]
             IN  /\ question.text = item.text
                 /\ question.answer = item.answer
                 /\ question.skill = item.skill
                 /\ question.level = item.level

\* a practice-mistakes session moves through its queue one entry at a
\* time and ends behind the last
MovesThroughQueue ==
    ((LastRan("next") \/ LastRan("advance"))
        /\ pageLast.before.page.sessionKind = "mistakes"
        /\ pageLast.before.page.answered
        /\ pageLast.before.question # Pending)
       => LET was == pageLast.before.page
          IN  IF was.questionIndex < Len(was.mistakeQueue)
              THEN /\ page.questionIndex = was.questionIndex + 1
                   /\ page.mistakeQueue = was.mistakeQueue
                   /\ question # Pending
              ELSE page.screen = "summary" /\ question = Pending

\* startMistakeSession does nothing on an empty ledger
NothingOnEmpty ==
    (StartedMistakes /\ pageLast.before.mistakes = <<>>)
       => /\ page = pageLast.before.page
          /\ question = pageLast.before.question
          /\ mistakes = <<>>

\* C22 as stated: starting a practice-mistakes session builds the queue of
\* the first min(ledger length, settings.questionCount) entries of the
\* ledger sorted by misses descending, ties by lastMissedAt descending;
\* the session presents those entries in that order with their stored
\* text, answer, skill and level, and does nothing on an empty ledger.
C22_QueueIsFirstMin ==
    /\ (StartedMistakes /\ pageLast.before.mistakes # <<>>)
          => LET items == pageLast.before.mistakes
                 count == pageLast.before.page.settings.questionCount
             IN  /\ page.sessionKind = "mistakes"
                 /\ FirstSorted(page.mistakeQueue, items,
                                Min2(Len(items), count))
    /\ PresentsQueue
    /\ MovesThroughQueue
    /\ NothingOnEmpty

\* the length of items.slice(0, count)
SliceLength(items, count) ==
    IF count < 0 THEN Max2(Len(items) + count, 0) ELSE Min2(Len(items), count)

\* C22, what the page does: the queue is sorted.slice(0, questionCount) of
\* the ledger sorted by misses descending, ties by lastMissedAt
\* descending and then by ledger order, which for a questionCount below 0
\* is all but the last -questionCount entries; where that is empty no
\* session starts; the session presents the queue in order and nothing
\* happens on an empty ledger.
C22_QueueIsSlice ==
    /\ (StartedMistakes /\ pageLast.before.mistakes # <<>>)
          => LET items == pageLast.before.mistakes
                 count == pageLast.before.page.settings.questionCount
                 n == SliceLength(items, count)
             IN  IF n = 0
                 THEN /\ page = [pageLast.before.page EXCEPT
                                    !.advanceTimer = Null]
                      /\ question = pageLast.before.question
                 ELSE /\ page.sessionKind = "mistakes"
                      /\ page.questionIndex = 1
                      /\ FirstSorted(page.mistakeQueue, items, n)
    /\ PresentsQueue
    /\ MovesThroughQueue
    /\ NothingOnEmpty

\* a session over a ledger of four entries with questionCount -1: the
\* queue holds three, and the session stands at the second of them
C22_Witness ==
    /\ page.sessionKind = "mistakes"
    /\ page.settings.questionCount < 0
    /\ Len(page.mistakeQueue) = Len(mistakes) + page.settings.questionCount
    /\ Len(page.mistakeQueue) > 2
    /\ page.questionIndex = 2
    /\ question # Pending
    /\ question.text = page.mistakeQueue[2].text

\* the last handler recorded a result: a submitted answer or a timeout
\* answered the question on screen
Resulted ==
    /\ LastRan("submit") \/ LastRan("timeout")
    /\ page.answered
    /\ ~pageLast.before.page.answered

\* the question the last handler started with
AskedQuestion == pageLast.before.question

\* its ledger key
AskedKey == AskedQuestion.skill \o ":" \o AskedQuestion.text

NoAnswer(chars) ==
    \/ Trim(chars) = <<>>
    \/ Trim(chars) = <<"-">>
    \/ ParseNumber(Trim(chars)) = NaN
    \/ "infinite" \in DOMAIN ParseNumber(Trim(chars))

\* C27: handleSubmit on an empty answer, a lone "-" or a text that does
\* not parse to a finite number sets an error message and leaves stats,
\* the session score, the ledger, the question, the feedback and the
\* answered flag as they were, the question still open to an answer; any
\* other text answers the question.
C27_BadInputChangesNothing ==
    LastRan("submit") =>
       IF NoAnswer(pageLast.arg)
       THEN /\ page.error # Null
            /\ page.answer = pageLast.arg
            /\ page = [pageLast.before.page EXCEPT !.error = page.error,
                                                   !.answer = page.answer]
            /\ stats = pageLast.before.stats
            /\ mistakes = pageLast.before.mistakes
            /\ question = pageLast.before.question
            /\ clock = pageLast.before.clock
            /\ ~page.answered
            /\ page.screen = "drill" /\ question # Pending
       ELSE /\ page.error = Null
            /\ page.answered
            /\ page.session.correct + page.session.wrong
                  = pageLast.before.page.session.correct
                       + pageLast.before.page.session.wrong + 1

\* an answer that is no number was refused after a refused empty answer
\* to the same question
C27_Witness ==
    /\ LastRan("submit")
    /\ "infinite" \in DOMAIN ParseNumber(pageLast.arg)
    /\ page.error = [str |-> "Numbers only for now."]
    /\ pageLast.before.page.error = [str |-> "Type an answer."]
    /\ question = pageLast.before.question
    /\ ~page.answered

\* the auto-advance timer is pending on a question that is answered
AdvancePending ==
    page.advanceTimer # Null /\ page.answered /\ question # Pending

\* the timer is armed for the results that advance by themselves and for
\* no other: right after a result it is due ADVANCE_MS later where the
\* answer was correct or the time ran out, and there is none after an
\* incorrect submitted answer, for as long as that question is on screen
AdvanceScheduled ==
    /\ Resulted =>
          IF page.feedback.correct \/ page.feedback.timedOut
          THEN page.advanceTimer = [due |-> clock + ADVANCE_MS]
          ELSE page.advanceTimer = Null
    /\ LastRan("timeout") => page.feedback.timedOut /\ ~page.feedback.correct
    /\ LastRan("submit") /\ page.answered => ~page.feedback.timedOut
    /\ page.advanceTimer # Null =>
          page.feedback # Null
             /\ (page.feedback.correct \/ page.feedback.timedOut)
    /\ (page.answered /\ page.feedback # Null
           /\ ~page.feedback.correct /\ ~page.feedback.timedOut)
          => /\ page.advanceTimer = Null
             /\ page.screen = "drill"
             /\ question # Pending

\* the timer firing on an answered question does what Next does, at the
\* time it was due: the next question or the summary
AdvanceMoves ==
    (LastRan("advance") /\ pageLast.before.page.answered
                        /\ pageLast.before.question # Pending)
       => LET was == pageLast.before.page
              total == IF was.sessionKind = "mistakes"
                       THEN Len(was.mistakeQueue)
                       ELSE was.settings.questionCount
          IN  /\ clock = was.advanceTimer.due
              /\ ~page.answered
              /\ IF was.questionIndex + 1 > total
                 THEN page.screen = "summary" /\ question = Pending
                 ELSE /\ page.screen = "drill"
                      /\ page.questionIndex = was.questionIndex + 1
                      /\ question # Pending
                      /\ page.feedback = Null
                      /\ page.advanceTimer = Null

\* C28: after a correct answer or a timeout the page moves to the next
\* question or to the summary by itself, ADVANCE_MS (700 ms) after the
\* result; after an incorrect submitted answer no advance is scheduled
\* and the answered question stays on screen.
C28_AdvancesByItself ==
    /\ [](AdvanceScheduled /\ AdvanceMoves)
    /\ (AdvancePending ~> ~page.answered)

\* the timer fired on a timed-out question and the next question is on
\* screen
C28_Witness ==
    /\ LastRan("advance")
    /\ pageLast.before.page.feedback # Null
    /\ pageLast.before.page.feedback.timedOut
    /\ clock = pageLast.before.clock + ADVANCE_MS
    /\ page.screen = "drill"
    /\ page.questionIndex = pageLast.before.page.questionIndex + 1
    /\ ~page.answered

\* C31: where no level change is possible the counters are not reset: at
\* level 1 every incorrect result leaves the level at 1 and raises
\* mistakeStreak by 1, and at the top level of the skill every correct
\* result leaves the level and raises streak by 1, whatever the counter
\* has reached.
C31_CountersGrowAtBounds ==
    \A i \in DOMAIN log :
        /\ (~log[i].correct /\ Pre(i).level = 1)
              => /\ Post(i).level = 1
                 /\ Post(i).mistakeStreak = Pre(i).mistakeStreak + 1
                 /\ Post(i).streak = 0
        /\ (log[i].correct /\ Pre(i).level = Len(LEVELS[log[i].skill]))
              => /\ Post(i).level = Pre(i).level
                 /\ Post(i).streak = Pre(i).streak + 1
                 /\ Post(i).mistakeStreak = 0

\* five incorrect results in a row at level 1 took mistakeStreak to
\* 1, 2, 3, 4, 5
C31_Witness ==
    /\ Len(log) = MaxStreakCalls
    /\ \A i \in DOMAIN log :
          /\ ~log[i].correct
          /\ Pre(i).level = 1
          /\ Post(i).mistakeStreak = i
    /\ log[Len(log)].after.mistakeStreak > 3

(***************************************************************************)
(* updateStats replayed: a caller feeding results for any skills, the log  *)
(* keeping the whole sequence of calls.                                    *)
(***************************************************************************)
ReplayCall(skill, correct, ms) ==
    /\ Len(log) < MaxReplayCalls
    /\ stats' = updateStats(stats, skill, correct, ms)
    /\ log' = Append(log, [ skill |-> skill, correct |-> correct, ms |-> ms,
                            before |-> Counters(stats[skill]),
                            after |-> Counters(stats'[skill]) ])
    /\ UNCHANGED <<warm, lookupVars, genVars, answer, ledgerVars, pageVars>>

ReplayNext ==
    \E skill \in SkillKey, correct \in BOOLEAN, ms \in MsValues :
        ReplayCall(skill, correct, ms)

ReplaySpec == StatsInit /\ [][ReplayNext]_vars

\* the Stats after the calls of a log, applied in order from st
RECURSIVE Replay(_, _)
Replay(st, calls) ==
    IF calls = <<>> THEN st
    ELSE Replay(updateStats(st, Head(calls).skill, Head(calls).correct,
                            Head(calls).ms),
                Tail(calls))

\* the calls with the i-th and the one after it in the other order
Swapped(calls, i) ==
    [k \in DOMAIN calls |-> IF k = i THEN calls[i + 1]
                            ELSE IF k = i + 1 THEN calls[i]
                            ELSE calls[k]]

\* C32: updateStats calls on two different skills commute, and replaying
\* a sequence of results from the same start gives the same Stats: the
\* Stats held equal the direct computation over the logged calls, and
\* equal it too with any two neighbouring calls on different skills in
\* the other order.
C32_CallsOnTwoSkillsCommute ==
    /\ stats = Replay(WarmStats(warm), log)
    /\ \A i \in 1..(Len(log) - 1) :
          log[i].skill # log[i + 1].skill
             => Replay(WarmStats(warm), Swapped(log, i)) = stats

\* a correct result for one skill next to an incorrect result for another,
\* each of which changed the record of its skill
C32_Witness ==
    /\ Len(log) >= 2
    /\ \E i \in 1..(Len(log) - 1) :
          /\ log[i].skill # log[i + 1].skill
          /\ log[i].correct # log[i + 1].correct
          /\ stats[log[i].skill] # WarmStats(warm)[log[i].skill]
          /\ stats[log[i + 1].skill] # WarmStats(warm)[log[i + 1].skill]
          /\ Swapped(log, i) # log

(***************************************************************************)
(* The ledger of a fresh page: it starts empty (nothing stored) and is     *)
(* changed by addMistakeEntry and removeMistakeEntry only.                 *)
(***************************************************************************)
\* the questions of a fresh page: one problem text per skill, for addition
\* at two levels
FreshQuestions(now) ==
    {generateQuestion(skill, 1, Undefined, 0, 0, now, "8f3a") :
        skill \in {"add", "sub", "mul"}}
    \cup {generateQuestion("add", 2, Undefined, 0, 0, now, "8f3a")}

FreshAdd ==
    /\ Len(ledgerLog) < MaxFreshOps
    /\ \E step \in ClockSteps :
       \E q \in FreshQuestions(clock + step) :
          /\ clock' = clock + step
          /\ mistakes' = addMistakeEntry(mistakes, q, clock')
          /\ ledgerLog' = Append(ledgerLog,
                                 [ op |-> "add", question |-> q,
                                   now |-> clock', before |-> mistakes ])
    /\ UNCHANGED <<stats, warm, log, lookupVars, genVars, answer, pageVars>>

\* removeMistakeEntry reads no clock
FreshRemove ==
    /\ Len(ledgerLog) < MaxFreshOps
    /\ \E q \in FreshQuestions(clock) :
          /\ mistakes' = removeMistakeEntry(mistakes, q)
          /\ ledgerLog' = Append(ledgerLog,
                                 [ op |-> "remove", question |-> q,
                                   now |-> clock, before |-> mistakes ])
    /\ UNCHANGED <<stats, warm, log, lookupVars, genVars, answer, clock,
                   pageVars>>

FreshNext == FreshAdd \/ FreshRemove

FreshSpec == LedgerInit /\ [][FreshNext]_vars

\* C33: from an empty ledger, after any sequence of addMistakeEntry and
\* removeMistakeEntry calls no two entries share an id and the id of
\* every entry is its skill, ":" and its text.
C33_IdsAreUniqueKeys ==
    /\ \A i, j \in 1..Len(mistakes) :
          mistakes[i].id = mistakes[j].id => i = j
    /\ \A i \in 1..Len(mistakes) :
          mistakes[i].id = mistakes[i].skill \o ":" \o mistakes[i].text

\* three entries are held after a problem was missed twice, under two
\* question ids and at two levels, and counted once
C33_Witness ==
    /\ Len(mistakes) = 3
    /\ \E i \in 1..Len(mistakes) : mistakes[i].misses = 2
    /\ \E a, b \in 1..Len(ledgerLog) :
          /\ a < b
          /\ ledgerLog[a].op = "add" /\ ledgerLog[b].op = "add"
          /\ makeMistakeId(ledgerLog[a].question)
                = makeMistakeId(ledgerLog[b].question)
          /\ ledgerLog[a].question.id # ledgerLog[b].question.id
          /\ ledgerLog[a].question.level # ledgerLog[b].question.level

\* C34: from an empty ledger and with a clock that does not go back,
\* after any sequence of addMistakeEntry and removeMistakeEntry calls the
\* ledger is ordered newest-updated-first: lastMissedAt does not increase
\* from head to tail, and every entry has misses >= 1.
C34_NewestUpdatedFirst ==
    /\ \A i \in 1..(Len(mistakes) - 1) :
          mistakes[i].lastMissedAt >= mistakes[i + 1].lastMissedAt
    /\ \A i \in 1..Len(mistakes) :
          /\ mistakes[i].misses >= 1
          /\ mistakes[i].lastMissedAt <= clock

\* a problem missed again at a later time moved from the tail to the
\* head, over an entry that was removed afterwards
C34_Witness ==
    /\ Len(ledgerLog) = 4
    /\ ledgerLog[3].op = "add"
    /\ Len(ledgerLog[3].before) = 2
    /\ ledgerLog[3].before[2].id = makeMistakeId(ledgerLog[3].question)
    /\ ledgerLog[3].now > ledgerLog[3].before[1].lastMissedAt
    /\ ledgerLog[4].op = "remove"
    /\ Len(ledgerLog[4].before) = 2
    /\ ledgerLog[4].before[1].misses = 2
    /\ ledgerLog[4].before[1].lastMissedAt
          > ledgerLog[4].before[2].lastMissedAt
    /\ Len(mistakes) = 1
    /\ mistakes[1].misses = 2

(***************************************************************************)
(* The page with the events of a drill taken one at a time: the ticks of   *)
(* the countdown, and handleSubmit and handleTimeout called on a question  *)
(* that is answered already (a key press or a tick that comes after the    *)
(* result), which their first lines turn away.                             *)
(***************************************************************************)
\* a tick of the countdown that does not reach zero: the interval runs
\* while an unanswered question is on the drill screen
Tick ==
    /\ page.screen = "drill"
    /\ Answerable(page, question)
    /\ page.timeLeft > 1
    /\ PageSteps < MaxPageSteps
    /\ page' = [page EXCEPT !.timeLeft = @ - 1]
    /\ clock' = clock + TICK_MS
    /\ pageLast' = Ran("tick", Null)
    /\ UNCHANGED <<stats, warm, log, lookupVars, genVars, answer, mistakes,
                   ledgerLog>>

\* handleSubmit called on the drill screen once the question is answered
SubmitAnswered ==
    /\ page.screen = "drill"
    /\ page.answered
    /\ PageSteps < MaxPageSteps
    /\ IF Answerable(page, question) THEN DoSubmit
       ELSE /\ pageLast' = Ran("submit", page.answer)
            /\ UNCHANGED <<stats, warm, log, lookupVars, genVars, answer,
                           ledgerVars, page>>

\* handleTimeout called by a tick once the question is answered
TimeoutAnswered ==
    /\ page.screen = "drill"
    /\ page.answered
    /\ PageSteps < MaxPageSteps
    /\ IF Answerable(page, question) THEN DoTimeout
       ELSE /\ pageLast' = Ran("timeout", Null)
            /\ UNCHANGED <<stats, warm, log, lookupVars, genVars, answer,
                           ledgerVars, page>>

EventNext ==
    \/ PageNext
    \/ Tick
    \/ SubmitAnswered
    \/ TimeoutAnswered

EventSpec == PageInit /\ [][EventNext]_vars

\* the last handler was a submit or a timeout called on an answered
\* question
CalledAgain ==
    /\ LastRan("submit") \/ LastRan("timeout")
    /\ pageLast.before.page.answered
    /\ pageLast.before.question # Pending

TotalQuestions(p) ==
    IF p.sessionKind = "mistakes" THEN Len(p.mistakeQueue)
    ELSE p.settings.questionCount

\* the results of the session of page p
Answers(p) == p.session.correct + p.session.wrong

\* the last handler brought up the summary
SummaryEntered ==
    /\ pageLast # Pending
    /\ page.screen = "summary"
    /\ pageLast.before.page.screen # "summary"

\* C36: during a drill questionIndex is within [1, total], total being
\* settings.questionCount in a standard session and the length of the
\* queue in a mistakes session; correct + wrong is questionIndex - 1
\* before the question is answered and questionIndex after; the summary
\* is reached only by Next on the answered last question, with
\* correct + wrong = total.
C36_SessionCounts ==
    /\ page.screen = "drill" =>
          /\ question # Pending
          /\ 1 <= page.questionIndex
          /\ page.questionIndex <= TotalQuestions(page)
          /\ Answers(page) = page.questionIndex - (IF page.answered THEN 0 ELSE 1)
    /\ SummaryEntered =>
          /\ LastRan("next") \/ LastRan("advance")
          /\ pageLast.before.page.screen = "drill"
          /\ pageLast.before.page.answered
          /\ pageLast.before.page.questionIndex = TotalQuestions(pageLast.before.page)
          /\ Answers(page) = TotalQuestions(page)

\* C36 as the code has it: the same, except that a standard session run
\* on a loaded questionCount below 1 has its only question at index 1,
\* beyond the total, and reaches the summary with one result
C36_SessionCountsOrStored ==
    /\ page.screen = "drill" =>
          /\ question # Pending
          /\ 1 <= page.questionIndex
          /\ \/ page.questionIndex <= TotalQuestions(page)
             \/ /\ page.sessionKind = "standard"
                /\ page.settings.questionCount < 1
                /\ page.questionIndex = 1
          /\ Answers(page) = page.questionIndex - (IF page.answered THEN 0 ELSE 1)
    /\ SummaryEntered =>
          /\ LastRan("next") \/ LastRan("advance")
          /\ pageLast.before.page.screen = "drill"
          /\ pageLast.before.page.answered
          /\ pageLast.before.page.questionIndex >= TotalQuestions(pageLast.before.page)
          /\ Answers(page) = pageLast.before.page.questionIndex
          /\ TotalQuestions(page) >= 1 => Answers(page) = TotalQuestions(page)

\* the summary of a standard session of questionCount -1, reached by Next
\* on its first question
C36_SummaryBeyondTotal ==
    /\ SummaryEntered
    /\ page.sessionKind = "standard"
    /\ page.settings.questionCount = -1
    /\ Answers(page) = 1

(***************************************************************************)
(* Claims about the countdown, under EventSpec.                            *)
(***************************************************************************)
\* the last handler was a timeout on an unanswered question: the
\* countdown reached zero
TimedOut == LastRan("timeout") /\ ~pageLast.before.page.answered

\* the timeout is recorded as an incorrect result of the question's
\* skill, counted in the score and entered in the ledger, and no tick
\* runs once the question is answered
TimeoutIsAMiss ==
    /\ TimedOut =>
          /\ \E elapsed \in {Max2(pageLast.before.page.settings.timeLimitSeconds, 1)
                                * TICK_MS} :
                stats = updateStats(pageLast.before.stats,
                                    pageLast.before.question.skill, FALSE, elapsed)
          /\ page.session.wrong = pageLast.before.page.session.wrong + 1
          /\ page.session.correct = pageLast.before.page.session.correct
          /\ mistakes = addMistakeEntry(pageLast.before.mistakes,
                                        pageLast.before.question, clock)
          /\ HasKey(mistakes, makeMistakeId(pageLast.before.question))
          /\ page.answered
          /\ page.feedback.timedOut /\ ~page.feedback.correct
          /\ page.timeLeft = 0
    /\ LastRan("tick") =>
          /\ ~pageLast.before.page.answered
          /\ page.timeLeft = pageLast.before.page.timeLeft - 1
    /\ (pageLast # Pending /\ pageLast.before.page.answered
          /\ page.answered /\ question = pageLast.before.question)
          => page.timeLeft = pageLast.before.page.timeLeft

\* C37: a countdown that reaches zero on an unanswered question is
\* recorded as an incorrect result (updateStats with correct = false for
\* the question's skill, wrong + 1, the question entered in the ledger);
\* the countdown never goes below 0 and stops once the question is
\* answered.
C37_TimeoutIsAMiss ==
    /\ TimeoutIsAMiss
    /\ page.timeLeft >= 0

\* C37 as the code has it: the countdown is below 0 only as the loaded
\* timeLimitSeconds it was set to, before its first tick
C37_TimeoutIsAMissOrStored ==
    /\ TimeoutIsAMiss
    /\ page.timeLeft >= 0 \/ page.timeLeft = page.settings.timeLimitSeconds

\* a question is on the drill screen with a countdown below 0
C37_CountdownBelowZero ==
    /\ page.screen = "drill"
    /\ Answerable(page, question)
    /\ page.timeLeft < 0

(***************************************************************************)
(* Claims about leaving a drill, under PageSpec.                           *)
(***************************************************************************)
\* C38: goToMenu (the menu button or the browser's back) during a drill
\* clears the question and cancels the pending auto-advance timer: on
\* the menu no timer is pending, so that no callback of it runs before a
\* new session is started; a callback that runs was armed off the menu,
\* changes neither stats, score nor ledger, and where there is no
\* question (the summary) changes neither screen nor questionIndex.
C38_MenuCancelsTimer ==
    /\ LastRan("goToMenu") =>
          /\ page.screen = "menu"
          /\ question = Pending
          /\ page.advanceTimer = Null
          /\ stats = pageLast.before.stats
          /\ mistakes = pageLast.before.mistakes
          /\ page.session = pageLast.before.page.session
          /\ page.questionIndex = pageLast.before.page.questionIndex
    /\ page.screen = "menu" =>
          /\ question = Pending
          /\ page.advanceTimer = Null
    /\ LastRan("advance") =>
          /\ pageLast.before.page.screen # "menu"
          /\ Arms(pageLast.before.page.feedback)
          /\ stats = pageLast.before.stats
          /\ mistakes = pageLast.before.mistakes
          /\ page.session = pageLast.before.page.session
          /\ pageLast.before.question = Pending =>
                /\ question = Pending
                /\ page.screen = pageLast.before.page.screen
                /\ page.questionIndex = pageLast.before.page.questionIndex

\* goToMenu ran on a drill whose auto-advance timer was pending
C38_Witness ==
    /\ LastRan("goToMenu")
    /\ pageLast.before.page.screen = "drill"
    /\ pageLast.before.page.advanceTimer # Null
    /\ pageLast.before.question # Pending
    /\ page.advanceTimer = Null

(***************************************************************************)
(* Claims about what applyResult does to the ledger, under PageSpec.       *)
(***************************************************************************)
\* C39: a correct answer in a standard session leaves the mistake ledger
\* as it was, an entry of the question's skill and text included; an
\* entry leaves the ledger only by a correct answer to its question in a
\* practice-mistakes session, or as the tail of a full ledger when a
\* miss enters a new entry.
C39_CorrectKeepsLedger ==
    /\ (Resulted /\ page.feedback.correct
           /\ pageLast.before.page.sessionKind = "standard")
          => mistakes = pageLast.before.mistakes
    /\ (pageLast # Pending /\ ~LastRan("mount")) =>
          LET before == pageLast.before.mistakes
              kind == pageLast.before.page.sessionKind
          IN  /\ \A i \in 1..Len(before) :
                    ~HasKey(mistakes, before[i].id) =>
                       /\ Resulted
                       /\ \/ /\ page.feedback.correct
                             /\ kind = "mistakes"
                             /\ before[i].id = AskedKey
                          \/ /\ ~page.feedback.correct
                             /\ ~HasKey(before, AskedKey)
                             /\ Len(before) = MAX_MISTAKES
                             /\ i = MAX_MISTAKES
              /\ Len(mistakes) < Len(before) =>
                    /\ Resulted
                    /\ page.feedback.correct
                    /\ kind = "mistakes"

\* a correct answer in a standard session to a question whose entry,
\* from a timeout on the same problem before, is in the ledger and stays
C39_Witness ==
    /\ Resulted
    /\ page.feedback.correct
    /\ page.sessionKind = "standard"
    /\ HasKey(pageLast.before.mistakes, AskedKey)
    /\ HasKey(mistakes, AskedKey)
    /\ page.session = [correct |-> 1, wrong |-> 1]

(***************************************************************************)
(* Claims about the level of the questions of a session, under PageSpec.   *)
(***************************************************************************)
\* the last handler put a new question of a standard session on the
\* drill screen
Generated ==
    /\ pageLast # Pending
    /\ page.sessionKind = "standard"
    /\ question # Pending
    /\ question # pageLast.before.question

\* C40: in a standard session every generated question has the level its
\* skill has in the stats at the time it is generated, which are the
\* stats the last result left: the question that follows a result that
\* raised or lowered the level of its skill is at the new level.  The
\* stats change only by a result, so that an unanswered question is at
\* the level of its skill throughout.
C40_QuestionAtCurrentLevel ==
    /\ Generated =>
          /\ stats = pageLast.before.stats
          /\ question.skill \in DOMAIN stats
          /\ question.level = stats[question.skill].level
          /\ page.mode # "mix" => question.skill = page.mode
    /\ (page.screen = "drill" /\ page.sessionKind = "standard"
           /\ ~page.answered)
          => question.level = stats[question.skill].level
    /\ (Resulted /\ page.sessionKind = "standard") =>
          /\ AskedQuestion.level = pageLast.before.stats[AskedQuestion.skill].level
          /\ stats = updateStats(pageLast.before.stats, AskedQuestion.skill,
                                 page.feedback.correct, page.feedback.ms)

\* the auto-advance after a result that changed the level of the skill
\* drew a question of that skill, at the new level
C40_Witness ==
    /\ Generated
    /\ LastRan("advance")
    /\ pageLast.before.question # Pending
    /\ question.skill = pageLast.before.question.skill
    /\ question.level # pageLast.before.question.level
    /\ question.level = stats[question.skill].level

====
